---- MODULE Spec2Model ----
(***************************************************************************)
(* Model of the ZNE strategy orchestrator of prototype-zne                 *)
(* (zne/zne_strategy.py) and of the collaborators it calls.                *)
(*                                                                         *)
(* Python values are modelled by what the code observes of them:           *)
(*   - a number or other scalar is a record [real, v]: real is the result  *)
(*     of zne.utils.typing.isreal on it, v its numeric value;              *)
(*   - a sequence is a record [type, items] with type "tuple" or "list"    *)
(*     (Python's == between a tuple and a list is False);                  *)
(*   - a non-sequence object is [type |-> "object", items |-> <<>>];       *)
(*   - a dict is a function from its keys.                                 *)
(***************************************************************************)
EXTENDS Integers, Sequences, FiniteSets, TLC

VARIABLES
    noise_factors,  \* ZNEStrategy.noise_factors, the dataclass field
    cached,         \* values held by the cached_property descriptors
    zne_cache,      \* ZNEStrategy._zne_cache
    amp_calls,      \* number of calls made to noise_amplifier.amplify_circuit_noise
    noise_amplifier,\* ZNEStrategy.noise_amplifier: the amplifier object and its options
    extrapolator,   \* ZNEStrategy.extrapolator (which extrapolate_zero it has)
    extrap_calls,   \* argument lists received by extrapolate_zero in the last call of mitigate
    fit_calls,      \* argument lists received by _extrapolate_zero in the last operation
    message,        \* the message of the exception raised by the last call of extrapolate_zero
    op,             \* the last operation and its input
    ret,            \* what the last operation returned
    err,            \* the exception the last operation raised, or "none"
    warnings,       \* the warnings the last operation emitted
    returned        \* per cache key, the result returned while the cache had room

vars == <<noise_factors, cached, zne_cache, amp_calls, noise_amplifier, extrapolator,
          extrap_calls, fit_calls, message, op, ret, err, warnings, returned>>

----------------------------------------------------------------------------
(* Bounds of the model *)

\* longest noise_factors argument
MaxLen == 3
\* largest noise factor value; 0 stands for any value below one
MaxNF == 3

----------------------------------------------------------------------------
(* Python values *)

Real(n) == [real |-> TRUE, v |-> n]
\* an element isreal rejects: a str, a bool, NaN, an infinity, a complex
NonReal == [real |-> FALSE, v |-> 0]

Elems == {Real(n) : n \in 0..MaxNF} \cup {NonReal}

\* A scalar of a given Python type: real is what zne.utils.typing.isreal answers
\* (an int that is not a bool, or a float strictly between -Inf and Inf)
Scalar(kind, v) == [real |-> kind \in {"int", "float"}, v |-> v, kind |-> kind]

\* True, NaN, Inf, "5" and 5j: none is a finite real number, although True == 1
\* and Inf > 1 pass the comparison with one
NonRealScalars ==
    {Scalar("bool", 1), Scalar("nan", 0), Scalar("inf", MaxNF + 1),
     Scalar("str", 0), Scalar("complex", 0)}

SeqsUpTo(S, n) == UNION {[1..k -> S] : k \in 0..n}

PyTuple(items) == [type |-> "tuple", items |-> items]
PyList(items) == [type |-> "list", items |-> items]
PyObject == [type |-> "object", items |-> <<>>]

\* isinstance(obj, collections.abc.Sequence)
IsSequence(obj) == obj.type \in {"tuple", "list"}

\* zne.utils.typing.isreal
isreal(e) == "real" \in DOMAIN e /\ e.real

RECURSIVE Insert(_, _)
Insert(e, s) ==
    IF s = <<>> THEN <<e>>
    ELSE IF e.v < Head(s).v THEN <<e>> \o s
    ELSE <<Head(s)>> \o Insert(e, Tail(s))

\* sorted(items): ascending and stable
RECURSIVE sorted(_)
sorted(s) == IF s = <<>> THEN <<>> ELSE Insert(s[Len(s)], sorted(SubSeq(s, 1, Len(s) - 1)))

\* sorted(set(items)): one element per value, ascending
RECURSIVE SortedSet(_)
SortedSet(S) ==
    IF S = {} THEN <<>>
    ELSE LET m == CHOOSE x \in S : \A y \in S : x <= y
         IN <<Real(m)>> \o SortedSet(S \ {m})

sorted_set(s) == SortedSet({s[i].v : i \in 1..Len(s)})

----------------------------------------------------------------------------
(* ZNEStrategy: construction *)

\* The loop of _validate_noise_factors reporting its last offender instead
LastOffender(items) ==
    LET bad == {i \in 1..Len(items) : ~isreal(items[i]) \/ items[i].v < 1}
    IN IF bad = {} THEN 0 ELSE CHOOSE i \in bad : \A j \in bad : i >= j

\* The index of the first element the loop of _validate_noise_factors rejects, 0 if none
FirstOffender(items) ==
    LET bad == {i \in 1..Len(items) : ~isreal(items[i]) \/ items[i].v < 1}
    IN IF bad = {} THEN 0 ELSE CHOOSE i \in bad : \A j \in bad : i <= j

\* The sort step of _validate_noise_factors: the stored tuple and the warnings
SortStep(nfs) ==
    LET s == PyTuple(sorted(nfs.items))
    IN IF nfs # s
       THEN [nfs |-> s, warnings |-> <<"Unordered noise factors detected and rearranged.">>]
       ELSE [nfs |-> nfs, warnings |-> <<>>]

\* The de-duplication step, dropped
DedupStepDropped(st) == st

\* The de-duplication step of _validate_noise_factors
DedupStep(st) ==
    LET s == PyTuple(sorted_set(st.nfs.items))
    IN IF st.nfs # s
       THEN [nfs |-> s,
             warnings |-> Append(st.warnings, "Duplicate noise factors detected and erased.")]
       ELSE st

\* _validate_noise_factors on the value given for the field:
\* the exception raised, the tuple stored and the warnings emitted
_validate_noise_factors(arg) ==
    IF ~IsSequence(arg)
    THEN [err |-> "TypeError", nfs |-> arg, warnings |-> <<>>]
    ELSE LET t == IF arg.type # "tuple" THEN PyTuple(arg.items) ELSE arg
             k == FirstOffender(t.items)
         IN IF t.items = <<>>
            THEN [err |-> "ValueError", nfs |-> t, warnings |-> <<>>]
            ELSE IF k # 0
            THEN [err |-> IF ~isreal(t.items[k]) THEN "TypeError" ELSE "ValueError",
                  nfs |-> t, warnings |-> <<>>]
            ELSE LET st == DedupStep(SortStep(t))
                 IN [err |-> "none", nfs |-> st.nfs, warnings |-> st.warnings]

----------------------------------------------------------------------------
(* Folding noise amplifiers: circuits and options *)

\* A circuit is the sequence of its operations; an operation is an instruction
\* name and the qubits it acts on
Operation(name, qargs) == [name |-> name, qargs |-> qargs]

\* circuit.qubits of the two-qubit circuits amplified here
AllQubits == <<1, 2>>

\* s is not its own inverse, cx is and acts on two qubits
Gates == {Operation("s", <<1>>), Operation("s", <<2>>), Operation("cx", <<1, 2>>)}
Barrier == Operation("barrier", AllQubits)
Measure == Operation("measure", <<1>>)

\* An inverse() returning the instruction itself
InverseSame(operation) == operation

\* Instruction.inverse(): the inverse instruction on the same qubits; s and sdg
\* are inverse of each other, cx and barrier are their own inverse
inverse(operation) ==
    Operation(CASE operation.name = "s" -> "sdg"
                [] operation.name = "sdg" -> "s"
                [] OTHER -> operation.name,
              operation.qargs)

\* QuantumCircuit.inverse(): the inverted operations in reverse order
RECURSIVE circuit_inverse(_)
circuit_inverse(circuit) ==
    IF circuit = <<>> THEN <<>>
    ELSE Append(circuit_inverse(Tail(circuit)), inverse(Head(circuit)))

\* A real number num/den, den > 0: noise factors and tolerances
Ratio(num, den) == [num |-> num, den |-> den]

\* _parse_gates_to_fold: None, or the frozenset of the names and qubit counts given
AllGates == [none |-> TRUE, names |-> {}, arities |-> {}]
GatesToFold(names, arities) == [none |-> FALSE, names |-> names, arities |-> arities]

\* FoldingAmplifier.__init__ / LocalFoldingAmplifier.__init__: the options kept
\* by the object; the relative tolerance is left at its default of 1e-2
FoldingAmplifier(kind, gates_to_fold, sub_folding_option, barriers, warn_user) ==
    [kind |-> kind,
     gates_to_fold |-> gates_to_fold,
     sub_folding_option |-> sub_folding_option,
     barriers |-> barriers,
     noise_factor_relative_tolerance |-> Ratio(1, 100),
     warn_user |-> warn_user]

\* CxAmplifier(): LocalFoldingAmplifier(gates_to_fold="cx") with the defaults
CxAmplifier ==
    FoldingAmplifier("LocalFoldingAmplifier", GatesToFold({"cx"}, {}), "from_first", TRUE, TRUE)

\* FoldingAmplifier.warn: a user warning, if enabled
warn_if_enabled(amp, msg) == IF amp.warn_user THEN <<msg>> ELSE <<>>

\* The entry check of amplify_circuit_noise, accepting every noise factor
ValidateNothing(noise_factor) == "none"

\* FoldingAmplifier._validate_noise_factor: the exception raised, or "none"
_validate_noise_factor(noise_factor) ==
    IF noise_factor.num < noise_factor.den THEN "ValueError" ELSE "none"

\* _apply_barrier applying the barrier whatever the option
ApplyBarrierAlways(amp, circuit, registers) ==
    Append(circuit, Operation("barrier", registers))

\* FoldingAmplifier._apply_barrier
_apply_barrier(amp, circuit, registers) ==
    IF amp.barriers THEN Append(circuit, Operation("barrier", registers)) ELSE circuit

\* rounding to the nearest integer with ties going up
RoundHalfUp(p, q) == (2 * p + q) \div (2 * q)

\* Python's round(p / q) for p >= 0, q > 0: to the nearest integer, ties to even
round(p, q) ==
    LET f == p \div q
        r == p % q
    IN IF 2 * r < q THEN f
       ELSE IF 2 * r > q THEN f + 1
       ELSE IF f % 2 = 0 THEN f ELSE f + 1

Abs(n) == IF n < 0 THEN -n ELSE n

\* FoldingAmplifier._compute_folding_nums: the folding plan and the warnings.
\* The nothing-to-fold warning goes through self.warn, the rounding warning
\* through warnings.warn
_compute_folding_nums(amp, noise_factor, num_instructions) ==
    IF num_instructions = 0
    THEN [full |-> 0, sub |-> 0,
          warnings |-> warn_if_enabled(amp,
              "Noise amplification is not performed since none of the gates are folded.")]
    ELSE LET num_foldings == round(num_instructions * (noise_factor.num - noise_factor.den),
                                   2 * noise_factor.den)
             tol == amp.noise_factor_relative_tolerance
             \* |closest_noise_factor - noise_factor| / noise_factor > tolerance
             exceeds ==
                 Abs((2 * num_foldings + num_instructions) * noise_factor.den
                         - noise_factor.num * num_instructions) * tol.den
                     > tol.num * num_instructions * noise_factor.num
         IN [full |-> num_foldings \div num_instructions,
             sub |-> num_foldings % num_instructions,
             warnings |-> IF exceeds THEN <<"Rounding of noise factor">> ELSE <<>>]

\* Generator.choice(n, size=size, replace=False): the sets of indices it can draw
rng_choice(n, size) == {S \in SUBSET (1..n) : Cardinality(S) = size}

\* the elements of a sequence at the indices of S, in ascending order of index
RECURSIVE AtIndices(_, _, _)
AtIndices(s, S, i) ==
    IF i > Len(s) THEN <<>>
    ELSE (IF i \in S THEN <<s[i]>> ELSE <<>>) \o AtIndices(s, S, i + 1)

----------------------------------------------------------------------------
(* GlobalFoldingAmplifier *)

\* The loop of _apply_full_folding from iteration i on: the circuit on even
\* iterations, its inverse on odd ones, a barrier on all qubits after each
RECURSIVE FullFoldingLoop(_, _, _, _, _)
FullFoldingLoop(amp, noisy_circuit, original_circuit, i, noise_factor) ==
    IF i >= noise_factor THEN noisy_circuit
    ELSE LET block == IF i % 2 = 0 THEN original_circuit
                      ELSE circuit_inverse(original_circuit)
         IN FullFoldingLoop(amp, _apply_barrier(amp, noisy_circuit \o block, AllQubits),
                            original_circuit, i + 1, noise_factor)

\* The same loop composing the circuit itself on every iteration
FullFoldingNoInverse(amp, noisy_circuit, original_circuit, num_foldings) ==
    LET RECURSIVE Loop(_, _)
        Loop(c, i) == IF i >= 2 * num_foldings + 1 THEN c
                      ELSE Loop(_apply_barrier(amp, c \o original_circuit, AllQubits), i + 1)
    IN Loop(noisy_circuit, 0)

\* GlobalFoldingAmplifier._apply_full_folding
_apply_full_folding(amp, noisy_circuit, original_circuit, num_foldings) ==
    FullFoldingLoop(amp, noisy_circuit, original_circuit, 0, 2 * num_foldings + 1)

\* The sub circuit taken from the first operations whatever the option
GetSubFoldingFirst(amp, circuit, size, draw) == SubSeq(circuit, 1, size)

\* GlobalFoldingAmplifier._get_sub_folding; draw is what the generator drew
_get_sub_folding(amp, circuit, size, draw) ==
    IF amp.sub_folding_option = "from_first" THEN SubSeq(circuit, 1, size)
    ELSE IF amp.sub_folding_option = "from_last"
    THEN SubSeq(circuit, Len(circuit) - size + 1, Len(circuit))
    ELSE AtIndices(circuit, draw, 1)

\* GlobalFoldingAmplifier._apply_sub_folding
_apply_sub_folding(amp, noisy_circuit, original_circuit, num_foldings, draw) ==
    IF num_foldings = 0 THEN noisy_circuit
    ELSE LET sub_circuit == _get_sub_folding(amp, original_circuit, num_foldings, draw)
         IN noisy_circuit \o circuit_inverse(sub_circuit) \o sub_circuit

\* GlobalFoldingAmplifier.amplify_circuit_noise: the exception raised, the
\* circuit returned and the warnings emitted
global_amplify_circuit_noise(amp, circuit, noise_factor, draw) ==
    IF _validate_noise_factor(noise_factor) # "none"
    THEN [err |-> _validate_noise_factor(noise_factor), ret |-> <<>>, warnings |-> <<>>]
    ELSE LET plan == _compute_folding_nums(amp, noise_factor, Len(circuit))
             folded == _apply_full_folding(amp, <<>>, circuit, plan.full)
         IN [err |-> "none",
             ret |-> _apply_sub_folding(amp, folded, circuit, plan.sub, draw),
             warnings |-> plan.warnings]

----------------------------------------------------------------------------
(* LocalFoldingAmplifier *)

\* LocalFoldingAmplifier._check_gate_folds
_check_gate_folds(amp, operation) ==
    IF operation.name \in {"barrier", "measure"} THEN FALSE
    ELSE \/ amp.gates_to_fold.none
         \/ Len(operation.qargs) \in amp.gates_to_fold.arities
         \/ operation.name \in amp.gates_to_fold.names

\* LocalFoldingAmplifier._build_sub_foldings: one 0 or 1 per gate to fold
_build_sub_foldings(amp, num_sub_foldings, num_gates_to_fold, draw) ==
    [i \in 1..num_gates_to_fold |->
        IF num_sub_foldings = 0 THEN 0
        ELSE IF amp.sub_folding_option = "from_first"
        THEN (IF i <= num_sub_foldings THEN 1 ELSE 0)
        ELSE IF amp.sub_folding_option = "from_last"
        THEN (IF i > num_gates_to_fold - num_sub_foldings THEN 1 ELSE 0)
        ELSE (IF i \in draw THEN 1 ELSE 0)]

\* LocalFoldingAmplifier._build_foldings: the foldings of each gate to fold
_build_foldings(amp, noise_factor, num_gates_to_fold, draw) ==
    LET plan == _compute_folding_nums(amp, noise_factor, num_gates_to_fold)
        sub_foldings == _build_sub_foldings(amp, plan.sub, num_gates_to_fold, draw)
    IN [foldings |-> [i \in 1..num_gates_to_fold |-> plan.full + sub_foldings[i]],
        warnings |-> plan.warnings]

\* [foldings.pop(0) if m else 0 for m in gates_to_fold_mask]
RECURSIVE PopPerMask(_, _)
PopPerMask(mask, foldings) ==
    IF mask = <<>> THEN <<>>
    ELSE IF Head(mask) THEN <<Head(foldings)>> \o PopPerMask(Tail(mask), Tail(foldings))
    ELSE <<0>> \o PopPerMask(Tail(mask), foldings)

\* the number of operations of the circuit that are folded
NumGatesToFold(amp, circuit) ==
    Cardinality({i \in 1..Len(circuit) : _check_gate_folds(amp, circuit[i])})

\* LocalFoldingAmplifier._build_foldings_per_gate
_build_foldings_per_gate(amp, circuit, noise_factor, draw) ==
    LET gates_to_fold_mask == [i \in 1..Len(circuit) |-> _check_gate_folds(amp, circuit[i])]
        built == _build_foldings(amp, noise_factor, NumGatesToFold(amp, circuit), draw)
    IN [foldings |-> PopPerMask(gates_to_fold_mask, built.foldings),
        warnings |-> built.warnings]

\* The folded gate without its inverses: every repetition appends the gate itself
RECURSIVE AppendRepeated(_, _, _, _)
AppendRepeated(amp, noisy_circuit, operation, num_foldings) ==
    LET first == Append(_apply_barrier(amp, noisy_circuit, operation.qargs), operation)
    IN IF num_foldings > 0
       THEN AppendRepeated(amp,
                Append(_apply_barrier(amp, first, operation.qargs), operation),
                operation, num_foldings - 1)
       ELSE _apply_barrier(amp, first, operation.qargs)

\* LocalFoldingAmplifier._append_folded
RECURSIVE _append_folded(_, _, _, _)
_append_folded(amp, noisy_circuit, operation, num_foldings) ==
    LET first == Append(_apply_barrier(amp, noisy_circuit, operation.qargs), operation)
    IN IF num_foldings > 0
       THEN _append_folded(amp,
                Append(_apply_barrier(amp, first, operation.qargs), inverse(operation)),
                operation, num_foldings - 1)
       ELSE _apply_barrier(amp, first, operation.qargs)

\* for operation, num_foldings in zip(circuit, foldings): ...
RECURSIVE ForOperations(_, _, _, _)
ForOperations(amp, noisy_circuit, circuit, foldings) ==
    IF circuit = <<>> \/ foldings = <<>> THEN noisy_circuit
    ELSE ForOperations(amp,
             IF Head(foldings) = 0 THEN Append(noisy_circuit, Head(circuit))
             ELSE _append_folded(amp, noisy_circuit, Head(circuit), Head(foldings)),
             Tail(circuit), Tail(foldings))

\* LocalFoldingAmplifier.amplify_circuit_noise: the exception raised, the
\* circuit returned and the warnings emitted
local_amplify_circuit_noise(amp, circuit, noise_factor, draw) ==
    IF _validate_noise_factor(noise_factor) # "none"
    THEN [err |-> _validate_noise_factor(noise_factor), ret |-> <<>>, warnings |-> <<>>]
    ELSE LET built == _build_foldings_per_gate(amp, circuit, noise_factor, draw)
         IN [err |-> "none",
             ret |-> ForOperations(amp, <<>>, circuit, built.foldings),
             warnings |-> built.warnings]

----------------------------------------------------------------------------
(* The state after ZNEStrategy(): the dataclass defaults *)

EmptyDict == <<>>

\* The state after ZNEStrategy(noise_factors=nfs, noise_amplifier=amp,
\* extrapolator=e) has returned
ConstructedWith(nfs, amp, e) ==
    /\ noise_factors = nfs
    /\ cached = EmptyDict
    /\ zne_cache = EmptyDict
    /\ amp_calls = 0
    /\ noise_amplifier = amp
    /\ extrapolator = e
    /\ extrap_calls = <<>>
    /\ fit_calls = <<>>
    /\ message = ""
    /\ op = [name |-> "init", arg |-> PyObject]
    /\ ret = PyObject
    /\ err = "none"
    /\ warnings = <<>>
    /\ returned = EmptyDict

\* The state after ZNEStrategy(noise_factors=nfs, extrapolator=e) has returned:
\* the default noise_amplifier is CxAmplifier()
Constructed(nfs, e) == ConstructedWith(nfs, CxAmplifier, e)

\* ZNEStrategy(): noise_factors = (1,), extrapolator = LinearExtrapolator()
Init == Constructed(PyTuple(<<Real(1)>>), "Extrapolator")

\* The values a caller passes for noise_factors
NoiseFactorArgs ==
    {PyTuple(s) : s \in SeqsUpTo(Elems, MaxLen)}
        \cup {PyList(s) : s \in SeqsUpTo(Elems, MaxLen)}
        \cup {PyList(<<e>>) : e \in NonRealScalars}
        \cup {PyList(<<Real(0), e>>) : e \in NonRealScalars}
        \cup {PyTuple(<<Real(2), e, Real(0)>>) : e \in NonRealScalars}
        \cup {PyObject}

\* The extrapolators a strategy is built with: "Extrapolator" is any subclass of
\* zne.extrapolation.Extrapolator (all of them inherit extrapolate_zero), "Mock"
\* the stand-in of the tests, whose extrapolate_zero takes any arguments
Extrapolators == {"Extrapolator", "Mock"}

\* A strategy built from any acceptable noise_factors and any extrapolator
InitConstructed ==
    \E arg \in NoiseFactorArgs, e \in Extrapolators :
        /\ _validate_noise_factors(arg).err = "none"
        /\ Constructed(_validate_noise_factors(arg).nfs, e)

\* strategy = ZNEStrategy(noise_factors=arg): the caller builds its strategy once,
\* before any other use; when __post_init__ raises there is no new object
Construct(arg) ==
    LET r == _validate_noise_factors(arg)
    IN /\ op.name = "init"
       /\ op' = [name |-> "construct", arg |-> arg]
       /\ err' = r.err
       /\ warnings' = r.warnings
       /\ ret' = PyObject
       /\ IF r.err = "none"
          THEN /\ noise_factors' = r.nfs
               /\ cached' = EmptyDict
               /\ zne_cache' = EmptyDict
               /\ returned' = EmptyDict
               /\ amp_calls' = 0
          ELSE UNCHANGED <<noise_factors, cached, zne_cache, returned, amp_calls>>
       /\ UNCHANGED <<noise_amplifier, extrapolator, fit_calls, message, extrap_calls>>

\* strategy.noise_factors = arg: ZNEStrategy is a plain @dataclass (not frozen,
\* no __setattr__, no property), so the assignment stores arg as it is
SetNoiseFactors(arg) ==
    /\ err = "none"
    /\ noise_factors' = arg
    /\ op' = [name |-> "setattr", arg |-> arg]
    /\ err' = "none"
    /\ warnings' = <<>>
    /\ ret' = PyObject
    /\ UNCHANGED <<cached, zne_cache, amp_calls, noise_amplifier, extrapolator, fit_calls,
                   message, extrap_calls, returned>>

NextStrategy ==
    \/ \E arg \in NoiseFactorArgs : Construct(arg)
    \/ \E arg \in NoiseFactorArgs : SetNoiseFactors(arg)

SpecStrategy == Init /\ [][NextStrategy]_vars

----------------------------------------------------------------------------
(* Claims on construction and reassignment *)

StrictlyIncreasing(items) == \A i \in 1..(Len(items) - 1) : items[i].v < items[i + 1].v

Values(items) == {items[i].v : i \in 1..Len(items)}

\* a non-empty sequence of real numbers >= 1
ValidNoiseFactors(arg) ==
    /\ IsSequence(arg)
    /\ arg.items # <<>>
    /\ \A i \in 1..Len(arg.items) : arg.items[i].real /\ arg.items[i].v >= 1

Normalized(nfs) ==
    /\ nfs.type = "tuple"
    /\ nfs.items # <<>>
    /\ \A i \in 1..Len(nfs.items) : nfs.items[i].real /\ nfs.items[i].v >= 1
    /\ StrictlyIncreasing(nfs.items)

\* C1: constructing a strategy from a non-empty sequence of reals >= 1 succeeds
\* and stores a strictly increasing tuple holding exactly the distinct values of
\* the input; a warning is emitted exactly when that tuple differs from the
\* input taken as a tuple.
C1_ConstructNormalizes ==
    (op.name = "construct" /\ ValidNoiseFactors(op.arg)) =>
        /\ err = "none"
        /\ noise_factors.type = "tuple"
        /\ StrictlyIncreasing(noise_factors.items)
        /\ \A i \in 1..Len(noise_factors.items) : noise_factors.items[i].real
        /\ Values(noise_factors.items) = Values(op.arg.items)
        /\ (warnings # <<>>) <=> (noise_factors.items # op.arg.items)

C1_Witness ==
    /\ op.name = "construct"
    /\ ValidNoiseFactors(op.arg)
    /\ op.arg.type = "list"
    /\ Len(op.arg.items) = 3
    /\ Len(noise_factors.items) = 2
    /\ Len(warnings) = 2

\* C2: after a reassignment of noise_factors, either the assignment raised or
\* the stored noise_factors is a strictly increasing, duplicate-free tuple of
\* reals >= 1.
C2_ReassignNormalizes ==
    op.name = "setattr" => (err # "none" \/ Normalized(noise_factors))

\* a finite real number: an int or a finite float, and no bool
FiniteReal(e) == e \in {Real(n) : n \in 0..MaxNF}

\* the elements of a sequence that are not finite reals >= 1
Offenders(items) == {i \in 1..Len(items) : ~FiniteReal(items[i]) \/ items[i].v < 1}

\* C16: constructing a strategy raises TypeError when noise_factors is not a
\* sequence, ValueError when it is empty, and otherwise the error of the first
\* element in input order that is not a finite real >= 1: TypeError when that
\* element is not a finite real number (bool, NaN, infinity, string, complex),
\* ValueError when it is a real below 1; with no such element it raises nothing.
C16_ConstructErrors ==
    op.name = "construct" =>
        IF ~IsSequence(op.arg) THEN err = "TypeError"
        ELSE IF op.arg.items = <<>> THEN err = "ValueError"
        ELSE IF Offenders(op.arg.items) = {} THEN err = "none"
        ELSE LET k == CHOOSE i \in Offenders(op.arg.items) :
                          \A j \in Offenders(op.arg.items) : i <= j
             IN err = IF FiniteReal(op.arg.items[k]) THEN "ValueError" ELSE "TypeError"

\* a value below one first and a bool after it: the ValueError of the first wins
C16_Witness ==
    /\ op.name = "construct"
    /\ op.arg = PyList(<<Real(0), Scalar("bool", 1)>>)
    /\ err = "ValueError"

----------------------------------------------------------------------------
(* ZNEStrategy.amplify_circuit_noise: cached noise amplification *)

CACHE_MAXSIZE == 256

\* most calls to the noise amplifier in a run of the cache specification
MaxCalls == 260
\* how many of the oldest and of the newest keys a caller asks for again
Window == 2

\* Python's None, where a circuit is expected
None == [circuit |-> 0, noise_factor |-> 0, id |-> 0]

\* noise_amplifier.amplify_circuit_noise(circuit, noise_factor): a new circuit
\* object on every call; id tells the objects apart (the n-th call returns object n)
amplifier_amplify_circuit_noise(circuit, noise_factor, n) ==
    [circuit |-> circuit, noise_factor |-> noise_factor, id |-> n]

\* The lookup, never finding anything
CacheGetNothing(cache, cache_key) == None

\* zne_cache.get(cache_key, None)
CacheGet(cache, cache_key) ==
    IF cache_key \in DOMAIN cache THEN cache[cache_key] ELSE None

\* The insertion, with the size test off by one
CacheInsertOffByOne(cache, cache_key, noisy_circuit) ==
    IF Cardinality(DOMAIN cache) <= CACHE_MAXSIZE
    THEN (cache_key :> noisy_circuit) @@ cache
    ELSE cache

\* if len(zne_cache) < CACHE_MAXSIZE: zne_cache.update({cache_key: noisy_circuit})
CacheInsert(cache, cache_key, noisy_circuit) ==
    IF Cardinality(DOMAIN cache) < CACHE_MAXSIZE
    THEN (cache_key :> noisy_circuit) @@ cache
    ELSE cache

\* amplify_circuit_noise on a strategy whose cache is `cache` and whose amplifier
\* has been called `calls` times: the cache, the call count and the result after.
\* A circuit is modelled by its key _circuit_key(circuit).
amplify_circuit_noise(cache, calls, circuit, noise_factor) ==
    LET cache_key == <<circuit, noise_factor>>
        found == CacheGet(cache, cache_key)
    IN IF found = None
       THEN LET noisy_circuit ==
                    amplifier_amplify_circuit_noise(circuit, noise_factor, calls + 1)
            IN [zne_cache |-> CacheInsert(cache, cache_key, noisy_circuit),
                amp_calls |-> calls + 1,
                ret |-> noisy_circuit]
       ELSE [zne_cache |-> cache, amp_calls |-> calls, ret |-> found]

\* The keys of the cache specification, in the order build_noisy_circuits walks
\* them: circuit by circuit, noise factors ascending
KeyIndex(circuit, noise_factor) == (circuit - 1) * MaxNF + noise_factor

\* enough circuits for more keys than the cache can hold
CacheCircuits == 1..((CACHE_MAXSIZE + Window) \div MaxNF + 1)

\* strategy.amplify_circuit_noise(circuit, noise_factor). The caller asks for the
\* next key not asked for yet, or again for one of the first or latest keys.
AmplifyCircuitNoise(circuit, noise_factor) ==
    LET k == KeyIndex(circuit, noise_factor)
        r == amplify_circuit_noise(zne_cache, amp_calls, circuit, noise_factor)
    IN /\ amp_calls < MaxCalls
       /\ k <= amp_calls + 1
       /\ k <= CACHE_MAXSIZE + Window
       /\ k <= Window \/ k + Window > amp_calls
       /\ zne_cache' = r.zne_cache
       /\ amp_calls' = r.amp_calls
       /\ ret' = r.ret
       /\ op' = [name |-> "amplify", arg |-> <<circuit, noise_factor>>]
       /\ err' = "none"
       /\ warnings' = <<>>
       /\ returned' = IF Cardinality(DOMAIN zne_cache) < CACHE_MAXSIZE
                      THEN (<<circuit, noise_factor>> :> r.ret) @@ returned
                      ELSE returned
       /\ UNCHANGED <<noise_factors, cached, noise_amplifier, extrapolator, fit_calls,
                      message, extrap_calls>>

NextCache ==
    \E circuit \in CacheCircuits, noise_factor \in 1..MaxNF :
        AmplifyCircuitNoise(circuit, noise_factor)

SpecCache == Init /\ [][NextCache]_vars

CacheFull == Cardinality(DOMAIN zne_cache) = CACHE_MAXSIZE

\* C5: the cache never holds more than 256 entries; once it holds 256, a call
\* with a key not in the cache invokes the amplifier and stores nothing; no
\* stored entry is ever evicted or replaced.
C5_CacheBounded ==
    /\ [](Cardinality(DOMAIN zne_cache) <= 256)
    /\ [][CacheFull =>
            /\ zne_cache' = zne_cache
            /\ op'.arg \notin DOMAIN zne_cache =>
                 (amp_calls' = amp_calls + 1 /\ ret'.id = amp_calls + 1)]_vars
    /\ [][\A k \in DOMAIN zne_cache :
            k \in DOMAIN zne_cache' /\ zne_cache'[k] = zne_cache[k]]_vars

C5_Witness ==
    /\ CacheFull
    /\ op.name = "amplify"
    /\ op.arg \notin DOMAIN zne_cache
    /\ amp_calls >= CACHE_MAXSIZE + 2

\* C6: once a call has returned r for a key while the cache held fewer than 256
\* entries, every later call with that key returns r itself and does not invoke
\* the noise amplifier.
C6_CacheHit ==
    [][\A k \in DOMAIN returned :
          (op'.name = "amplify" /\ op'.arg = k) =>
              (ret' = returned[k] /\ amp_calls' = amp_calls)]_vars

C6_Witness ==
    /\ op.name = "amplify"
    /\ op.arg \in DOMAIN returned
    /\ ret = returned[op.arg]
    /\ ret.id < amp_calls
    /\ CacheFull

----------------------------------------------------------------------------
(* ZNEStrategy.build_noisy_circuits and ZNEStrategy.map_to_noisy_circuits *)

\* distinct circuits a caller submits
MaxCircuits == 2
\* longest list of circuits, or of arguments, a caller submits
MaxBatch == 2
\* largest value of an argument mapped to the noisy circuits
MaxArg == 1

PyNone == [type |-> "NoneType", items |-> <<>>]
\* a bare QuantumCircuit, given by its circuit key
PyCircuit(c) == [type |-> "QuantumCircuit", items |-> <<c>>]
\* a bare int
PyInt(e) == [type |-> "int", items |-> <<e>>]

\* isinstance(arg, collections.abc.Iterable)
IsIterable(arg) == arg.type \in {"tuple", "list"}

\* The cached_property num_noise_factors: the value read and the values held after.
\* The first read computes len(noise_factors) and keeps it in the instance.
num_noise_factors(cch, nfs) ==
    LET value == IF "num_noise_factors" \in DOMAIN cch
                 THEN cch["num_noise_factors"]
                 ELSE Len(nfs.items)
    IN [value |-> value, cached |-> ("num_noise_factors" :> value) @@ cch]

\* for noise_factor in self.noise_factors: yield self.amplify_circuit_noise(...)
\* st holds the cache, the call count and the circuits yielded so far
RECURSIVE ForNoiseFactors(_, _, _)
ForNoiseFactors(st, circuit, nfs) ==
    IF nfs = <<>> THEN st
    ELSE LET r == amplify_circuit_noise(st.zne_cache, st.amp_calls, circuit, Head(nfs).v)
         IN ForNoiseFactors([zne_cache |-> r.zne_cache,
                             amp_calls |-> r.amp_calls,
                             out |-> Append(st.out, r.ret)],
                            circuit, Tail(nfs))

\* The loops nested the other way round: noise factor by noise factor
RECURSIVE generate_noisy_circuits_by_factor(_, _, _)
generate_noisy_circuits_by_factor(st, original_circuits, nfs) ==
    IF nfs = <<>> THEN st
    ELSE LET RECURSIVE ForCircuits(_, _)
             ForCircuits(s, cs) ==
                 IF cs = <<>> THEN s
                 ELSE ForCircuits(ForNoiseFactors(s, Head(cs), <<Head(nfs)>>), Tail(cs))
         IN generate_noisy_circuits_by_factor(ForCircuits(st, original_circuits),
                                              original_circuits, Tail(nfs))

\* for circuit in original_circuits: for noise_factor in self.noise_factors: ...
RECURSIVE generate_noisy_circuits(_, _, _)
generate_noisy_circuits(st, original_circuits, nfs) ==
    IF original_circuits = <<>> THEN st
    ELSE generate_noisy_circuits(ForNoiseFactors(st, Head(original_circuits), nfs),
                                 Tail(original_circuits), nfs)

\* build_noisy_circuits: a bare circuit is wrapped in a list, the generator is
\* collected in a tuple
build_noisy_circuits(cache, calls, nfs, original_circuits) ==
    LET circuits == IF original_circuits.type = "QuantumCircuit"
                    THEN PyList(original_circuits.items)
                    ELSE original_circuits
        st == generate_noisy_circuits([zne_cache |-> cache, amp_calls |-> calls, out |-> <<>>],
                                      circuits.items, nfs.items)
    IN [zne_cache |-> st.zne_cache, amp_calls |-> st.amp_calls, ret |-> PyTuple(st.out)]

\* mapped_arg.extend(element for _ in range(n))
RECURSIVE Repeat(_, _)
Repeat(element, n) == IF n <= 0 THEN <<>> ELSE <<element>> \o Repeat(element, n - 1)

\* The whole argument list repeated n times instead of each element
RECURSIVE ExtendWhole(_, _)
ExtendWhole(items, n) == IF n <= 0 THEN <<>> ELSE items \o ExtendWhole(items, n - 1)

\* The loop of map_to_noisy_circuits over the elements of arg
RECURSIVE ExtendEach(_, _)
ExtendEach(items, n) ==
    IF items = <<>> THEN <<>> ELSE Repeat(Head(items), n) \o ExtendEach(Tail(items), n)

\* map_to_noisy_circuits: the value returned and the cached_property values after
map_to_noisy_circuits(cch, nfs, arg) ==
    IF arg = PyNone THEN [ret |-> arg, cached |-> cch]
    ELSE LET a == IF ~IsIterable(arg) THEN PyList(arg.items) ELSE arg
             n == num_noise_factors(cch, nfs)
         IN IF a.items = <<>>
            THEN [ret |-> PyTuple(<<>>), cached |-> cch]
            ELSE [ret |-> PyTuple(ExtendEach(a.items, n.value)), cached |-> n.cached]

CircuitArgs ==
    {PyList(s) : s \in SeqsUpTo(1..MaxCircuits, MaxBatch)}
        \cup {PyCircuit(c) : c \in 1..MaxCircuits}

MapArgs ==
    {PyList(s) : s \in SeqsUpTo(0..MaxArg, MaxBatch)}
        \cup {PyInt(e) : e \in 0..MaxArg} \cup {PyNone}

\* strategy.build_noisy_circuits(original_circuits)
BuildNoisyCircuits(original_circuits) ==
    LET r == build_noisy_circuits(zne_cache, amp_calls, noise_factors, original_circuits)
    IN /\ zne_cache' = r.zne_cache
       /\ amp_calls' = r.amp_calls
       /\ ret' = r.ret
       /\ op' = [name |-> "build", arg |-> original_circuits]
       /\ err' = "none"
       /\ warnings' = <<>>
       /\ UNCHANGED <<noise_factors, cached, noise_amplifier, extrapolator, fit_calls,
                      message, extrap_calls, returned>>

\* strategy.map_to_noisy_circuits(arg)
MapToNoisyCircuits(arg) ==
    LET r == map_to_noisy_circuits(cached, noise_factors, arg)
    IN /\ cached' = r.cached
       /\ ret' = r.ret
       /\ op' = [name |-> "map", arg |-> arg]
       /\ err' = "none"
       /\ warnings' = <<>>
       /\ UNCHANGED <<noise_factors, zne_cache, amp_calls, noise_amplifier, extrapolator,
                      fit_calls, message, extrap_calls, returned>>

NextBuild ==
    \/ \E cs \in CircuitArgs : BuildNoisyCircuits(cs)
    \/ \E arg \in MapArgs : MapToNoisyCircuits(arg)

SpecBuild == InitConstructed /\ [][NextBuild]_vars

\* the j-th smallest (j = 0, 1, ...) of the configured noise factors
JthSmallest(nfs, j) ==
    CHOOSE v \in Values(nfs.items) :
        Cardinality({u \in Values(nfs.items) : u < v}) = j

\* the argument as the list it is treated as
AsList(arg) == arg.items

\* C7: build_noisy_circuits on L circuits with n noise factors returns a tuple of
\* L*n circuits whose element i*n + j is the amplification of circuit i at the
\* j-th smallest noise factor; a single circuit counts as a list of one.
C7_BuildOrder ==
    op.name = "build" =>
        LET cs == AsList(op.arg)
            n == Cardinality(Values(noise_factors.items))
        IN /\ err = "none"
           /\ ret.type = "tuple"
           /\ Len(ret.items) = Len(cs) * n
           /\ \A i \in 0..(Len(cs) - 1), j \in 0..(n - 1) :
                /\ ret.items[i * n + j + 1].circuit = cs[i + 1]
                /\ ret.items[i * n + j + 1].noise_factor = JthSmallest(noise_factors, j)
                /\ ret.items[i * n + j + 1].id \in 1..amp_calls

C7_Witness ==
    /\ op.name = "build"
    /\ op.arg.type = "list"
    /\ Len(op.arg.items) = 2
    /\ op.arg.items[1] # op.arg.items[2]
    /\ Len(noise_factors.items) = 3
    /\ Len(ret.items) = 6

\* C8: map_to_noisy_circuits on a list a of length L with n noise factors returns
\* a tuple of length L*n whose element k is a[k div n]; None maps to None and a
\* non-iterable scalar is treated as a list of one.
C8_MapOrder ==
    op.name = "map" =>
        LET a == AsList(op.arg)
            n == Cardinality(Values(noise_factors.items))
        IN /\ err = "none"
           /\ op.arg = PyNone => ret = PyNone
           /\ op.arg # PyNone =>
                /\ ret.type = "tuple"
                /\ Len(ret.items) = Len(a) * n
                /\ \A k \in 0..(Len(a) * n - 1) : ret.items[k + 1] = a[(k \div n) + 1]

C8_Witness ==
    /\ op.name = "map"
    /\ op.arg.type = "list"
    /\ Len(op.arg.items) = 2
    /\ op.arg.items[1] # op.arg.items[2]
    /\ Len(noise_factors.items) = 3
    /\ Len(ret.items) = 6

----------------------------------------------------------------------------
(* Extrapolator.extrapolate_zero, as ZNEStrategy.mitigate_noisy_result calls it *)

\* ReckoningResult(value, std_error, metadata)
ReckoningResult(value, std_error, metadata) ==
    [type |-> "ReckoningResult", items |-> <<value, std_error, metadata>>]

\* Extrapolator._validate_data
_validate_data(data) ==
    IF ~IsSequence(data) \/ \E i \in 1..Len(data.items) : ~isreal(data.items[i])
    THEN [err |-> "TypeError", data |-> data]
    ELSE [err |-> "none", data |-> PyTuple(data.items)]

\* Extrapolator._validate_sigma
_validate_sigma(sigma, default_size) ==
    _validate_data(IF sigma = PyNone THEN PyList([i \in 1..default_size |-> Real(1)])
                   ELSE sigma)

\* The model fit of the concrete extrapolator, kept as a term over its inputs
_extrapolate_zero(x_data, y_data, sigma_x, sigma_y) ==
    LET fit == [x_data |-> x_data, y_data |-> y_data, sigma_y |-> sigma_y]
    IN ReckoningResult([fit |-> fit, part |-> "value"],
                       [fit |-> fit, part |-> "std_error"],
                       [fit |-> fit, part |-> "metadata"])

\* what scipy's curve_fit does in a fit: it returns, or it raises RuntimeError
\* when the least-squares minimization fails
SolverOutcomes == {"ok", "RuntimeError"}

\* _validate_min_points counting the points instead of the distinct x values
EnoughPoints(x_data, min_points) == Len(x_data.items) >= min_points

\* Extrapolator._validate_min_points: len(set(x_data)) against min_points
_validate_min_points(x_data, min_points) == Cardinality(Values(x_data.items)) >= min_points

\* _cross_validate_data_sigma, accepting any sizes
SizesUnchecked(x_data, y_data, sigma_x, sigma_y) == TRUE

\* Extrapolator._cross_validate_data_sigma: all four of the same size
_cross_validate_data_sigma(x_data, y_data, sigma_x, sigma_y) ==
    Cardinality({Len(x_data.items), Len(y_data.items),
                 Len(sigma_x.items), Len(sigma_y.items)}) = 1

\* The fit returning a value of its own when the solver fails
FitWithFallback(solver, x_data, y_data, sigma_x, sigma_y) ==
    [err |-> "none", message |-> "",
     ret |-> _extrapolate_zero(x_data, y_data, sigma_x, sigma_y),
     fits |-> <<<<x_data, y_data, sigma_x, sigma_y>>>>]

\* The call of self._extrapolate_zero: the solver's error goes through as it is
Fit(solver, x_data, y_data, sigma_x, sigma_y) ==
    IF solver # "ok"
    THEN [err |-> solver, message |-> "solver", ret |-> PyNone,
          fits |-> <<<<x_data, y_data, sigma_x, sigma_y>>>>]
    ELSE [err |-> "none", message |-> "",
          ret |-> _extrapolate_zero(x_data, y_data, sigma_x, sigma_y),
          fits |-> <<<<x_data, y_data, sigma_x, sigma_y>>>>]

\* Extrapolator.extrapolate_zero(*args) for an extrapolator with the given
\* min_points, when the solver behaves as said. x_data and y_data are required
\* positional parameters: Python raises TypeError when the call does not bind
\* them. fits holds the arguments of the calls of _extrapolate_zero, message
\* tells the messages of the exceptions apart.
extrapolate_zero(min_points, args, solver) ==
    IF Len(args) < 2 \/ Len(args) > 4
    THEN [err |-> "TypeError", message |-> "missing argument", ret |-> PyNone, fits |-> <<>>]
    ELSE LET x == _validate_data(args[1])
             y == _validate_data(args[2])
             sx == _validate_sigma(IF Len(args) >= 3 THEN args[3] ELSE PyNone,
                                   Len(x.data.items))
             sy == _validate_sigma(IF Len(args) >= 4 THEN args[4] ELSE PyNone,
                                   Len(y.data.items))
             raised(e, m) == [err |-> e, message |-> m, ret |-> PyNone, fits |-> <<>>]
         IN IF x.err # "none" THEN raised(x.err, "Invalid data")
            ELSE IF y.err # "none" THEN raised(y.err, "Invalid data")
            ELSE IF sx.err # "none" THEN raised(sx.err, "Invalid data")
            ELSE IF sy.err # "none" THEN raised(sy.err, "Invalid data")
            ELSE IF ~_cross_validate_data_sigma(x.data, y.data, sx.data, sy.data)
            THEN raised("ValueError", "Invalid data, all inputs should be of the same size")
            ELSE IF ~_validate_min_points(x.data, min_points)
            THEN raised("ValueError", "Insufficient number of distinct data points provided")
            ELSE Fit(solver, x.data, y.data, sx.data, sy.data)

\* LinearExtrapolator.min_points, the extrapolator of the default strategy
LinearMinPoints == 2

\* What the stand-in of test_mitigate_noisy_result returns: (value, metadata);
\* like any extrapolator taking the call, it raises what its solver raises
MockReturn == PyTuple(<<Real(0), ("R2" :> Real(1))>>)

\* self.extrapolator.extrapolate_zero(*args) on the configured extrapolator
CallExtrapolateZero(e, args, solver) ==
    IF e = "Mock"
    THEN (IF solver # "ok"
          THEN [err |-> solver, message |-> "solver", ret |-> PyNone, fits |-> <<args>>]
          ELSE [err |-> "none", message |-> "", ret |-> MockReturn, fits |-> <<args>>])
    ELSE extrapolate_zero(LinearMinPoints, args, solver)

----------------------------------------------------------------------------
(* ZNEStrategy.mitigate_noisy_result *)

\* most experiments in a raw result
MaxExperiments == 4

\* the values and variances the backend reports
RawValues == {0, 1}
RawVariances == {4}

\* the metadata of one experiment: with or without a variance entry
RawMetadata == {EmptyDict} \cup {("variance" :> Real(v)) : v \in RawVariances}

\* EstimatorResult.experiments: one {"values": ..., "metadata": ...} per experiment
RawResults ==
    SeqsUpTo([values : {Real(v) : v \in RawValues}, metadata : RawMetadata], MaxExperiments)

EstimatorResult(values, metadata) ==
    [type |-> "EstimatorResult", values |-> values, metadata |-> metadata]

NoneValue == [real |-> FALSE, v |-> 0 - 1]

\* group_elements_gen(elements, group_size)
RECURSIVE group_elements_gen(_, _)
group_elements_gen(elements, group_size) ==
    IF elements = <<>> THEN <<>>
    ELSE LET k == IF group_size < Len(elements) THEN group_size ELSE Len(elements)
         IN <<SubSeq(elements, 1, k)>>
                \o group_elements_gen(SubSeq(elements, k + 1, Len(elements)), group_size)

\* The grouping without the test on the number of experiments
GroupsUnchecked(experiments, n) ==
    [err |-> "none", groups |-> group_elements_gen(experiments, n)]

\* _generate_noisy_result_groups: the error of the first next(), or the groups,
\* each an EstimatorResult over group_size experiments
_generate_noisy_result_groups(experiments, n) ==
    IF Len(experiments) % n # 0
    THEN [err |-> "ValueError", groups |-> <<>>]
    ELSE [err |-> "none", groups |-> group_elements_gen(experiments, n)]

\* zip truncated to the shortest of its arguments
Min2(a, b) == IF a < b THEN a ELSE b

\* md.get("variance", 0)
GetVariance(md) == IF "variance" \in DOMAIN md THEN md["variance"] ELSE Real(0)

\* _regression_data_from_result_group: tuple(zip(noise_factors, values, variances))
_regression_data_from_result_group(result_group, nfs, n) ==
    IF Len(result_group) # n
    THEN [err |-> "ValueError", data |-> PyNone]
    ELSE [err |-> "none",
          data |-> PyTuple([i \in 1..Min2(Len(nfs.items), Len(result_group)) |->
                              PyTuple(<<nfs.items[i],
                                        result_group[i].values,
                                        GetVariance(result_group[i].metadata)>>)])]

\* merge_dicts(dict_list): the keys of all the dicts
MergedKeys(dict_list) == UNION {DOMAIN dict_list[i] : i \in 1..Len(dict_list)}

\* from_common_key leaving out the dicts that lack the key
FromPresentKey(dict_list, key) ==
    PyTuple(SelectSeq([i \in 1..Len(dict_list) |->
                         IF key \in DOMAIN dict_list[i] THEN dict_list[i][key]
                         ELSE NoneValue],
                      LAMBDA v : v # NoneValue))

\* from_common_key(dict_list, key)
from_common_key(dict_list, key) ==
    PyTuple([i \in 1..Len(dict_list) |->
               IF key \in DOMAIN dict_list[i] THEN dict_list[i][key] ELSE NoneValue])

\* build_zne_metadata(result_group, extrapolation) on a strategy with noise
\* amplifier amp, noise factors nfs, num_noise_factors n and extrapolator e
build_zne_metadata(result_group, extrapolation, amp, nfs, n, e) ==
    IF Len(result_group) # n
    THEN [err |-> "ValueError", metadata |-> EmptyDict]
    ELSE LET mds == [i \in 1..Len(result_group) |-> result_group[i].metadata]
             base == [noise_amplifier |-> amp,
                      noise_factors |-> nfs,
                      values |-> PyTuple([i \in 1..Len(result_group) |->
                                            result_group[i].values])]
             raw == [key \in MergedKeys(mds) |-> from_common_key(mds, key)]
         IN [err |-> "none",
             metadata |->
                 [noise_amplification |-> raw @@ base,
                  extrapolation |->
                      extrapolation @@ [extrapolator |-> [type |-> e, items |-> <<>>]]]]

\* The loop of mitigate_noisy_result over the groups. st holds the values and
\* the metadata appended so far, the calls made to extrapolate_zero and the
\* exception that ended the loop, and what the solver does in the fits to come.
RECURSIVE ForResultGroups(_, _, _, _, _, _)
ForResultGroups(st, groups, amp, nfs, n, e) ==
    IF groups = <<>> \/ st.err # "none" THEN st
    ELSE LET result_group == Head(groups)
             data == _regression_data_from_result_group(result_group, nfs, n)
             args == <<data.data>>
             called == CallExtrapolateZero(e, args, Head(st.solvers))
             zne == build_zne_metadata(result_group, called.ret.items[2], amp, nfs, n, e)
         IN IF data.err # "none" THEN [st EXCEPT !.err = data.err]
            ELSE IF called.err # "none"
            THEN [st EXCEPT !.err = called.err, !.calls = Append(st.calls, args),
                            !.fits = st.fits \o called.fits]
            ELSE IF Len(called.ret.items) # 2
            THEN [st EXCEPT !.err = "ValueError", !.calls = Append(st.calls, args),
                            !.fits = st.fits \o called.fits]
            ELSE IF zne.err # "none"
            THEN [st EXCEPT !.err = zne.err, !.calls = Append(st.calls, args),
                            !.fits = st.fits \o called.fits]
            ELSE ForResultGroups(
                     [values |-> Append(st.values, called.ret.items[1]),
                      metadata |-> Append(st.metadata, [zne |-> zne.metadata]),
                      calls |-> Append(st.calls, args),
                      fits |-> st.fits \o called.fits,
                      solvers |-> Tail(st.solvers),
                      err |-> "none"],
                     Tail(groups), amp, nfs, n, e)

\* mitigate_noisy_result(noisy_result) on a strategy with noise amplifier amp,
\* noise factors nfs,
\* num_noise_factors n and extrapolator e
mitigate_noisy_result(experiments, amp, nfs, n, e, solvers) ==
    LET g == _generate_noisy_result_groups(experiments, n)
        st == ForResultGroups([values |-> <<>>, metadata |-> <<>>, calls |-> <<>>,
                               fits |-> <<>>, solvers |-> solvers, err |-> g.err],
                              g.groups, amp, nfs, n, e)
    IN [err |-> st.err,
        calls |-> st.calls,
        fits |-> st.fits,
        ret |-> IF st.err = "none" THEN EstimatorResult(st.values, st.metadata) ELSE PyNone]

\* The solver succeeding in every fit of a call, or failing in the fit of one group
SolverRuns(num_groups) ==
    {[i \in 1..num_groups |-> IF i = fail_at THEN "RuntimeError" ELSE "ok"] :
        fail_at \in 0..num_groups}

\* strategy.mitigate_noisy_result(noisy_result), once per strategy and raw result
MitigateNoisyResult(experiments, solvers) ==
    LET n == num_noise_factors(cached, noise_factors)
        r == mitigate_noisy_result(experiments, noise_amplifier, noise_factors, n.value,
                                   extrapolator, solvers)
    IN /\ op.name = "init"
       /\ cached' = n.cached
       /\ extrap_calls' = r.calls
       /\ ret' = r.ret
       /\ err' = r.err
       /\ op' = [name |-> "mitigate", arg |-> experiments, solvers |-> solvers]
       /\ warnings' = <<>>
       /\ fit_calls' = r.fits
       /\ UNCHANGED <<noise_factors, zne_cache, amp_calls, noise_amplifier, extrapolator,
                      message, returned>>

NextMitigate ==
    \E experiments \in RawResults :
        \E solvers \in SolverRuns(Len(experiments)) : MitigateNoisyResult(experiments, solvers)

SpecMitigate == InitConstructed /\ [][NextMitigate]_vars

----------------------------------------------------------------------------
(* Claims on mitigate_noisy_result *)

\* the noise factors of the strategy, ascending
AscendingFactors == [j \in 1..Cardinality(Values(noise_factors.items)) |->
                       Real(JthSmallest(noise_factors, j - 1))]

NumFactors == Len(noise_factors.items)

\* the raw experiments of group g (g = 1, 2, ...)
GroupOf(experiments, g) == SubSeq(experiments, (g - 1) * NumFactors + 1, g * NumFactors)

\* the square root of a perfect square
Sqrt(v) == CHOOSE r \in 0..v : r * r = v

\* the variance of a raw experiment, 1 when its metadata has none
VarianceOrOne(experiment) ==
    IF "variance" \in DOMAIN experiment.metadata THEN experiment.metadata["variance"].v ELSE 1

\* C3: for each group, mitigate passes the extrapolator x = the noise factors
\* ascending, y = the group's values, sigma_x = 1 for every point and
\* sigma_y = sqrt(variance) for every point, the variance being 1 when absent.
C3_RegressionData ==
    op.name = "mitigate" =>
        \A g \in 1..Len(extrap_calls) :
            LET args == extrap_calls[g]
                group == GroupOf(op.arg, g)
            IN /\ Len(args) = 4
               /\ args[1].items = AscendingFactors
               /\ args[2].items = [i \in 1..NumFactors |-> group[i].values]
               /\ args[3].items = [i \in 1..NumFactors |-> Real(1)]
               /\ args[4].items = [i \in 1..NumFactors |-> Real(Sqrt(VarianceOrOne(group[i])))]

\* C4: for each group, mitigate calls extrapolate_zero(x_data, y_data, sigma_x,
\* sigma_y) and gets (value, std_error, metadata) back; the mitigated entry of
\* the group carries the value and the std_error.
C4_ExtrapolatorContract ==
    (op.name = "mitigate" /\ Len(op.arg) % NumFactors = 0) =>
        /\ err = "none"
        /\ Len(extrap_calls) = Len(op.arg) \div NumFactors
        /\ \A g \in 1..Len(extrap_calls) :
             /\ Len(extrap_calls[g]) = 4
             /\ Len(ret.values) >= g
             /\ "std_error" \in DOMAIN ret.metadata[g] \cup DOMAIN ret.metadata[g].zne

\* C9: on m*n raw experiments mitigate returns exactly m entries, entry i made
\* from the raw experiments i*n .. (i+1)*n - 1 in that order.
C9_MitigateOrder ==
    (op.name = "mitigate" /\ Len(op.arg) % NumFactors = 0) =>
        /\ err = "none"
        /\ Len(ret.values) = Len(op.arg) \div NumFactors
        /\ Len(ret.metadata) = Len(op.arg) \div NumFactors
        /\ \A g \in 1..(Len(op.arg) \div NumFactors) :
             ret.metadata[g].zne.noise_amplification.values.items
                 = [i \in 1..NumFactors |-> GroupOf(op.arg, g)[i].values]

\* C10: mitigate raises ValueError when the number of raw experiments is not a
\* multiple of num_noise_factors, before any call of the extrapolator and
\* without any mitigated entry.
C10_ValueErrorFirst ==
    (op.name = "mitigate" /\ Len(op.arg) % NumFactors # 0) =>
        /\ err = "ValueError"
        /\ extrap_calls = <<>>
        /\ ret = PyNone

C10_Witness ==
    /\ op.name = "mitigate"
    /\ NumFactors = 2
    /\ Len(op.arg) = 3
    /\ extrapolator = "Mock"
    /\ err = "ValueError"

----------------------------------------------------------------------------
(* The folding amplifiers called on their own *)

\* longest circuit amplified
MaxOps == 3

\* The noise factors asked for: 1/2, 1, 3/2, 2, 3 and 7/2
NoiseFactorValues ==
    {Ratio(1, 2), Ratio(1, 1), Ratio(3, 2), Ratio(2, 1), Ratio(3, 1), Ratio(7, 2)}

SubFoldingOptions == {"from_first", "from_last", "random"}

\* The amplifiers a caller builds
FoldingAmplifiers ==
    {FoldingAmplifier("GlobalFoldingAmplifier", AllGates, o, b, w) :
        o \in SubFoldingOptions, b \in BOOLEAN, w \in BOOLEAN}
    \cup {FoldingAmplifier("LocalFoldingAmplifier", g, o, b, w) :
        g \in {AllGates, GatesToFold({"cx"}, {}), GatesToFold({}, {1})},
        o \in SubFoldingOptions, b \in BOOLEAN, w \in BOOLEAN}

\* A default strategy holding any of these amplifiers
InitFolding ==
    \E amp \in FoldingAmplifiers : ConstructedWith(PyTuple(<<Real(1)>>), amp, "Extrapolator")

\* Circuits of gates and barriers: every operation has an inverse
InvertibleCircuits == SeqsUpTo(Gates \cup {Barrier}, MaxOps)
\* Circuits that also hold measurements
MeasuredCircuits ==
    SeqsUpTo({Operation("s", <<1>>), Operation("cx", <<1, 2>>), Barrier, Measure}, MaxOps)

\* What the generator of the amplifier can draw in a call that sub-folds at
\* random num_units units; nothing is drawn otherwise
Draws(amp, noise_factor, num_units) ==
    LET plan == _compute_folding_nums(amp, noise_factor, num_units)
    IN IF /\ _validate_noise_factor(noise_factor) = "none"
          /\ amp.sub_folding_option = "random"
          /\ plan.sub > 0
       THEN rng_choice(num_units, plan.sub)
       ELSE {{}}

\* The call has returned r or raised r.err. The amplifier keeps nothing from one
\* call to the next but its generator, so one call per amplifier is followed
Called(name, circuit, noise_factor, draw, r) ==
    /\ op' = [name |-> name,
              arg |-> [circuit |-> circuit, noise_factor |-> noise_factor, draw |-> draw]]
    /\ err' = r.err
    /\ ret' = IF r.err = "none" THEN r.ret ELSE PyNone
    /\ warnings' = r.warnings
    /\ UNCHANGED <<noise_factors, cached, zne_cache, amp_calls, noise_amplifier,
                   extrapolator, extrap_calls, fit_calls, message, returned>>

\* GlobalFoldingAmplifier(...).amplify_circuit_noise(circuit, noise_factor)
GlobalAmplifyCircuitNoise ==
    /\ op.name = "init"
    /\ noise_amplifier.kind = "GlobalFoldingAmplifier"
    /\ \E circuit \in InvertibleCircuits, noise_factor \in NoiseFactorValues :
       \E draw \in Draws(noise_amplifier, noise_factor, Len(circuit)) :
           Called("amplify_global", circuit, noise_factor, draw,
                  global_amplify_circuit_noise(noise_amplifier, circuit, noise_factor, draw))

\* LocalFoldingAmplifier(...).amplify_circuit_noise(circuit, noise_factor)
LocalAmplifyCircuitNoise ==
    /\ op.name = "init"
    /\ noise_amplifier.kind = "LocalFoldingAmplifier"
    /\ \E circuit \in MeasuredCircuits, noise_factor \in NoiseFactorValues :
       \E draw \in Draws(noise_amplifier, noise_factor,
                         NumGatesToFold(noise_amplifier, circuit)) :
           Called("amplify_local", circuit, noise_factor, draw,
                  local_amplify_circuit_noise(noise_amplifier, circuit, noise_factor, draw))

NextFolding ==
    \/ GlobalAmplifyCircuitNoise
    \/ LocalAmplifyCircuitNoise

SpecFolding == InitFolding /\ [][NextFolding]_vars

----------------------------------------------------------------------------
(* Claims on the folding amplifiers *)

IsBarrier(operation) == operation.name = "barrier"
NotBarrier(operation) == ~IsBarrier(operation)

\* a circuit with its barriers ignored
IgnoreBarriers(circuit) == SelectSeq(circuit, NotBarrier)

\* cancelling adjacent pairs of an operation and its inverse on the same
\* qubits, from left to right, until none is left
RECURSIVE Cancel(_, _)
Cancel(stack, rest) ==
    IF rest = <<>> THEN stack
    ELSE IF stack # <<>> /\ stack[Len(stack)].qargs = Head(rest).qargs
                         /\ stack[Len(stack)].name
                                = (CASE Head(rest).name = "s" -> "sdg"
                                     [] Head(rest).name = "sdg" -> "s"
                                     [] OTHER -> Head(rest).name)
    THEN Cancel(SubSeq(stack, 1, Len(stack) - 1), Tail(rest))
    ELSE Cancel(Append(stack, Head(rest)), Tail(rest))

\* w reduces to exactly s by such cancellations: the operations of s are found
\* in w, in order, and what lies between them cancels out entirely
RECURSIVE ReducesTo(_, _)
ReducesTo(w, s) ==
    IF s = <<>> THEN Cancel(<<>>, w) = <<>>
    ELSE \E j \in 1..Len(w) :
             /\ w[j] = Head(s)
             /\ Cancel(<<>>, SubSeq(w, 1, j - 1)) = <<>>
             /\ ReducesTo(SubSeq(w, j + 1, Len(w)), Tail(s))

AtLeastOne(noise_factor) == noise_factor.num >= noise_factor.den

Amplified == op.name \in {"amplify_global", "amplify_local"}

\* C11: for a circuit of invertible operations and a noise factor >= 1, with
\* either amplifier and any sub-folding policy, the amplified circuit with
\* barriers ignored reduces to exactly the original circuit (barriers ignored)
\* by cancelling adjacent pairs of an operation and its inverse on the same qubits.
C11_EffectPreserved ==
    (/\ Amplified
     /\ AtLeastOne(op.arg.noise_factor)
     /\ \A i \in 1..Len(op.arg.circuit) : op.arg.circuit[i].name # "measure") =>
        /\ err = "none"
        /\ ReducesTo(IgnoreBarriers(ret), IgnoreBarriers(op.arg.circuit))

\* three operations folded at random, one of them a gate that is not its own inverse
C11_Witness ==
    /\ Amplified
    /\ err = "none"
    /\ Len(IgnoreBarriers(ret)) > Len(IgnoreBarriers(op.arg.circuit))
    /\ Len(op.arg.circuit) = 3
    /\ \E i \in 1..Len(ret) : ret[i].name = "sdg"
    /\ noise_amplifier.sub_folding_option = "random"

\* n blocks alternating the circuit and its inverse, the first one forward
RECURSIVE Alternating(_, _, _)
Alternating(s, n, forward) ==
    IF n = 0 THEN <<>>
    ELSE (IF forward THEN s ELSE circuit_inverse(s)) \o Alternating(s, n - 1, ~forward)

\* the folding plan of the last call on num_units units
Plan(num_units) == _compute_folding_nums(noise_amplifier, op.arg.noise_factor, num_units)

GlobalFolded == op.name = "amplify_global" /\ err = "none" /\ Len(op.arg.circuit) > 0

\* C12: for a circuit s of length d > 0 with folding plan (full, sub), the
\* output of the global amplifier, barriers ignored, is 2*full + 1 blocks
\* alternating s and inverse(s), first and last forward, followed only when
\* sub > 0 by inverse(subset) and subset for sub operations of s; it holds
\* d*(2*full + 1) + 2*sub = d + 2*foldings operations besides the barriers the
\* amplifier adds (one per block when barriers are enabled, none otherwise).
C12_GlobalBlocks ==
    GlobalFolded =>
        LET s == op.arg.circuit
            d == Len(s)
            plan == Plan(d)
            blocks == Alternating(s, 2 * plan.full + 1, TRUE)
            added == IF noise_amplifier.barriers THEN 2 * plan.full + 1 ELSE 0
        IN /\ \E S \in rng_choice(d, plan.sub) :
                  LET subset == AtIndices(s, S, 1)
                      expected == blocks \o circuit_inverse(subset) \o subset
                  IN /\ IgnoreBarriers(ret) = IgnoreBarriers(expected)
                     /\ ~noise_amplifier.barriers => ret = expected
           /\ Len(ret) - added = d * (2 * plan.full + 1) + 2 * plan.sub
           /\ Len(ret) - added = d + 2 * (plan.full * d + plan.sub)

\* one full folding and one sub-folded operation of a three-operation circuit
C12_Witness ==
    /\ GlobalFolded
    /\ Len(op.arg.circuit) = 3
    /\ Plan(3).full = 1
    /\ Plan(3).sub = 1
    /\ \E i \in 1..Len(ret) : ret[i].name = "sdg"

\* the operations of a circuit the local amplifier folds, by position
Foldable(circuit) ==
    {i \in 1..Len(circuit) :
        /\ circuit[i].name \notin {"barrier", "measure"}
        /\ \/ noise_amplifier.gates_to_fold.none
           \/ circuit[i].name \in noise_amplifier.gates_to_fold.names
           \/ Len(circuit[i].qargs) \in noise_amplifier.gates_to_fold.arities}

\* the rank of position i among the foldable positions
Rank(circuit, i) == Cardinality({j \in Foldable(circuit) : j <= i})

\* op followed by k repetitions of (inverse(op), op)
RECURSIVE Expansion(_, _)
Expansion(operation, k) ==
    IF k = 0 THEN <<operation>>
    ELSE Expansion(operation, k - 1) \o <<inverse(operation), operation>>

\* the expansions of the operations from position i on, in order: full foldings
\* for every foldable operation and one more for those whose rank is chosen
RECURSIVE Expansions(_, _, _, _)
Expansions(circuit, i, full, chosen) ==
    IF i > Len(circuit) THEN <<>>
    ELSE (IF i \in Foldable(circuit)
          THEN Expansion(circuit[i],
                         full + (IF Rank(circuit, i) \in chosen THEN 1 ELSE 0))
          ELSE <<circuit[i]>>)
         \o Expansions(circuit, i + 1, full, chosen)

\* instances of foldable operations in a circuit: the operation or its inverse
Instances(circuit, original) ==
    Cardinality({i \in 1..Len(circuit) :
        \E j \in Foldable(original) :
            circuit[i] = original[j] \/ circuit[i] = inverse(original[j])})

LocalFolded == op.name = "amplify_local" /\ err = "none"

\* C13: the output of the local amplifier, barriers ignored, is the
\* concatenation in original order of one expansion per input operation: a
\* non-foldable operation (barrier, measurement, or outside gates_to_fold by
\* name and by arity) once and unchanged, a foldable operation with k foldings
\* as op followed by k times (inverse(op), op); the foldable-operation instances
\* in the output number unit_count + 2*foldings.
C13_LocalExpansions ==
    LocalFolded =>
        LET s == op.arg.circuit
            n == Cardinality(Foldable(s))
            plan == Plan(n)
        IN /\ \E chosen \in rng_choice(n, plan.sub) :
                  LET expected == Expansions(s, 1, plan.full, chosen)
                  IN /\ IgnoreBarriers(ret) = IgnoreBarriers(expected)
                     /\ ~noise_amplifier.barriers => ret = expected
           /\ \A i \in 1..Len(s) :
                  i \notin Foldable(s) /\ s[i].name # "barrier" =>
                      Cardinality({j \in 1..Len(ret) : ret[j] = s[i]})
                          = Cardinality({j \in 1..Len(s) : s[j] = s[i]})
           /\ Instances(ret, s) = n + 2 * (plan.full * n + plan.sub)

\* a measurement and a gate outside gates_to_fold pass through, a cx is folded
C13_Witness ==
    /\ LocalFolded
    /\ noise_amplifier.gates_to_fold = GatesToFold({"cx"}, {})
    /\ op.arg.circuit = <<Operation("s", <<1>>), Operation("cx", <<1, 2>>), Measure>>
    /\ Plan(1).full = 1
    /\ Len(IgnoreBarriers(ret)) = 5

\* the units a policy chooses among n when sub of them are sub-folded
ChosenBy(option, n, sub, draw) ==
    IF option = "from_first" THEN 1..sub
    ELSE IF option = "from_last" THEN (n - sub + 1)..n
    ELSE draw

\* C14: when sub > 0 units out of N are sub-folded, exactly sub distinct units
\* are chosen: the first sub for from_first, the last sub for from_last, sub
\* distinct units drawn from the generator for random; the global amplifier
\* appends inverse(chosen), chosen with the chosen operations in their original
\* order, the local amplifier gives one more folding to the chosen foldable
\* operations, counted among the foldable operations only.
C14_SubFoldingChoice ==
    LET s == op.arg.circuit
        option == noise_amplifier.sub_folding_option
    IN /\ (GlobalFolded /\ Plan(Len(s)).sub > 0) =>
              LET sub == Plan(Len(s)).sub
                  chosen == ChosenBy(option, Len(s), sub, op.arg.draw)
                  subset == AtIndices(s, chosen, 1)
              IN /\ Cardinality(chosen) = sub
                 /\ chosen \subseteq 1..Len(s)
                 /\ SubSeq(ret, Len(ret) - sub + 1, Len(ret)) = subset
                 /\ SubSeq(ret, Len(ret) - 2 * sub + 1, Len(ret) - sub)
                        = circuit_inverse(subset)
       /\ (LocalFolded /\ Plan(Cardinality(Foldable(s))).sub > 0) =>
              LET n == Cardinality(Foldable(s))
                  plan == Plan(n)
                  chosen == ChosenBy(option, n, plan.sub, op.arg.draw)
              IN /\ Cardinality(chosen) = plan.sub
                 /\ chosen \subseteq 1..n
                 /\ IgnoreBarriers(ret)
                        = IgnoreBarriers(Expansions(s, 1, plan.full, chosen))

\* the last two of three operations sub-folded by the global amplifier
C14_Witness ==
    /\ GlobalFolded
    /\ noise_amplifier.sub_folding_option = "from_last"
    /\ Len(op.arg.circuit) = 3
    /\ Plan(3).sub = 2
    /\ op.arg.circuit[1] # op.arg.circuit[3]

\* C15: amplify_circuit_noise with a noise factor below 1 raises ValueError on
\* both folding amplifiers, before any folding plan is computed (no warning of
\* the plan is emitted) and without returning an amplified circuit.
C15_NoiseFactorBelowOne ==
    (Amplified /\ ~AtLeastOne(op.arg.noise_factor)) =>
        /\ err = "ValueError"
        /\ ret = PyNone
        /\ warnings = <<>>

\* an empty circuit, whose plan would warn that nothing is folded
C15_Witness ==
    /\ op.name = "amplify_local"
    /\ ~AtLeastOne(op.arg.noise_factor)
    /\ op.arg.circuit = <<>>
    /\ err = "ValueError"

----------------------------------------------------------------------------
(* Extrapolator.extrapolate_zero called on its own *)

\* most data points in a call
MaxPoints == 3

\* the x values of the data points
XValues == {1, 2, 3}

\* min_points of the extrapolators called: 2 for the linear one, 3 for the
\* quadratic one and for the exponential one with a single term
MinPointsValues == {2, 3}

\* [e] * k
Filled(k, e) == PyList([i \in 1..k |-> e])

XData ==
    {PyTuple(s) : s \in SeqsUpTo({Real(v) : v \in XValues}, MaxPoints)}
        \cup {PyList(<<Real(1), e>>) : e \in NonRealScalars}
        \cup {PyList(<<Real(1), NonReal, Real(2)>>), PyObject}

YData == {Filled(k, Real(0)) : k \in 0..MaxPoints} \cup {PyList(<<NonReal>>), PyObject}

\* a sigma given, or None for one left out
SigmaData ==
    {Filled(k, Real(1)) : k \in 0..MaxPoints} \cup {PyList(<<NonReal>>), PyObject, PyNone}

\* The sigmas of a call: none given, or both (None for one left to its default)
SigmaArgs == {<<>>} \cup {<<sx, sy>> : sx \in SigmaData, sy \in SigmaData}

\* The strategies whose extrapolator is called: two noise factors, any extrapolator
InitExtrapolate ==
    \E e \in Extrapolators : Constructed(PyTuple(<<Real(1), Real(2)>>), e)

\* extrapolator.extrapolate_zero(*args) on an Extrapolator of the repository
\* with the given min_points; an extrapolator keeps nothing from call to call
ExtrapolateZero ==
    /\ op.name = "init"
    /\ extrapolator = "Extrapolator"
    /\ \E min_points \in MinPointsValues, solver \in SolverOutcomes :
       \E x \in XData, y \in YData, sigmas \in SigmaArgs :
           LET args == <<x, y>> \o sigmas
               r == extrapolate_zero(min_points, args, solver)
           IN \* the solver only acts when the fit is reached
              /\ solver # "ok" => r.fits # <<>>
              /\ op' = [name |-> "extrapolate_zero", arg |-> args,
                        min_points |-> min_points, solver |-> solver]
              /\ err' = r.err
              /\ message' = r.message
              /\ ret' = r.ret
              /\ fit_calls' = r.fits
              /\ warnings' = <<>>
              /\ UNCHANGED <<noise_factors, cached, zne_cache, amp_calls, noise_amplifier,
                             extrapolator, extrap_calls, returned>>

NextExtrapolate ==
    \/ ExtrapolateZero
    \/ NextMitigate

SpecExtrapolate == InitExtrapolate /\ [][NextExtrapolate]_vars


----------------------------------------------------------------------------
(* Claims on Extrapolator.extrapolate_zero and on solver failures *)

\* the argument bound to the i-th parameter of extrapolate_zero: sigma_x and
\* sigma_y default to None
Given(i) == IF Len(op.arg) >= i THEN op.arg[i] ELSE PyNone

Omitted(i) == i \in 3..4 /\ Given(i) = PyNone

\* the number of distinct x values, duplicates counted once
DistinctX == Cardinality({Given(1).items[i].v : i \in 1..Len(Given(1).items)})

\* C17: for any extrapolator with min_points = m, extrapolate_zero called with
\* fewer than m distinct x values (duplicates counted once) raises an error and
\* never invokes the model fit (_extrapolate_zero).
C17_InsufficientPoints ==
    (op.name = "extrapolate_zero" /\ DistinctX < op.min_points)
        => /\ err # "none"
           /\ ret = PyNone
           /\ fit_calls = <<>>

\* three well-formed points, two of them on the same x, for min_points = 3
C17_Witness ==
    /\ op.name = "extrapolate_zero"
    /\ op.min_points = 3
    /\ op.arg = <<PyTuple(<<Real(1), Real(2), Real(1)>>), Filled(3, Real(0))>>
    /\ err = "ValueError"
    /\ message = "Insufficient number of distinct data points provided"
    /\ fit_calls = <<>>

\* not a sequence, or a sequence holding an entry that is not a finite real
BadType(v) ==
    \/ v.type \notin {"tuple", "list"}
    \/ \E i \in 1..Len(v.items) : v.items[i] \in NonRealScalars \cup {NonReal}

AnyBadType == \E i \in 1..4 : ~Omitted(i) /\ BadType(Given(i))

\* the length of the i-th input, an omitted sigma taking that of its data
Size(i) == IF Omitted(i) THEN Len(Given(i - 2).items) ELSE Len(Given(i).items)

Mismatch == \E i, j \in 1..4 : Size(i) # Size(j)

Ones(k) == PyTuple([i \in 1..k |-> Real(1)])

\* C18: extrapolate_zero raises a TypeError when any of x_data, y_data,
\* sigma_x, sigma_y is not a sequence or holds a non-finite or non-real entry,
\* and a ValueError when the four sequences do not all have the same length;
\* an omitted sigma is replaced by all ones of the length of the matching data;
\* the type check of all four inputs precedes the length check, which precedes
\* the min_points check.
C18_ValidationOrder ==
    (op.name = "extrapolate_zero" /\ Len(op.arg) \in 2..4)
        => /\ AnyBadType => (err = "TypeError" /\ fit_calls = <<>>)
           /\ (~AnyBadType /\ Mismatch)
                  => /\ err = "ValueError"
                     /\ message = "Invalid data, all inputs should be of the same size"
                     /\ fit_calls = <<>>
           /\ (~AnyBadType /\ ~Mismatch /\ DistinctX < op.min_points)
                  => /\ err = "ValueError"
                     /\ message = "Insufficient number of distinct data points provided"
           /\ \A k \in 1..Len(fit_calls) : \A i \in 3..4 :
                  Omitted(i) => fit_calls[k][i] = Ones(Len(fit_calls[k][i - 2].items))

\* well-typed inputs of different lengths with too few distinct x values and
\* sigma_x omitted: the length error is the one raised
C18_Witness ==
    /\ op.name = "extrapolate_zero"
    /\ Len(op.arg) = 4
    /\ Omitted(3)
    /\ ~AnyBadType
    /\ Mismatch
    /\ DistinctX < op.min_points
    /\ err = "ValueError"
    /\ message = "Invalid data, all inputs should be of the same size"

\* the position of the fit in which the solver fails during a mitigate call,
\* 0 when that fit is not reached
FailedFit ==
    IF \E i \in 1..Len(fit_calls) : op.solvers[i] # "ok"
    THEN CHOOSE i \in 1..Len(fit_calls) : op.solvers[i] # "ok"
    ELSE 0

----------------------------------------------------------------------------
(* ZNEStrategy.build_zne_metadata *)

\* the noise factors of the strategies whose metadata is built
MetadataNoiseFactors == {PyTuple(<<Real(1), Real(2)>>), PyTuple(<<Real(1), Real(2), Real(3)>>)}

\* the metadata of one noisy experiment: fields that some experiments have and
\* others lack, and a field named like an entry build_zne_metadata writes
GroupMetadata ==
    {EmptyDict,
     "variance" :> Real(4),
     "shots" :> Real(2),
     ("variance" :> Real(4)) @@ ("shots" :> Real(2)),
     "values" :> Real(3)}

\* result groups of one to three experiments
GroupSizes == {1, 2, 3}

ResultGroups ==
    UNION {[1..k -> [values : {Real(v) : v \in RawValues}, metadata : GroupMetadata]] :
               k \in GroupSizes}

\* the metadata an extrapolator returns with its value
Diagnostics ==
    {EmptyDict,
     "R2" :> Real(1),
     "extrapolator" :> Real(0),
     ("R2" :> Real(1)) @@ ("extrapolator" :> Real(0))}

InitMetadata ==
    \E nfs \in MetadataNoiseFactors, e \in Extrapolators : Constructed(nfs, e)

\* strategy.build_zne_metadata(result_group, extrapolation)
BuildZneMetadata ==
    /\ op.name = "init"
    /\ \E result_group \in ResultGroups, extrapolation \in Diagnostics :
           LET n == num_noise_factors(cached, noise_factors)
               r == build_zne_metadata(result_group, extrapolation, noise_amplifier,
                                       noise_factors, n.value, extrapolator)
           IN /\ op' = [name |-> "build_zne_metadata", arg |-> result_group,
                        extrapolation |-> extrapolation]
              /\ cached' = n.cached
              /\ err' = r.err
              /\ ret' = IF r.err = "none" THEN r.metadata ELSE PyNone
              /\ warnings' = <<>>
              /\ UNCHANGED <<noise_factors, zne_cache, amp_calls, noise_amplifier,
                             extrapolator, extrap_calls, fit_calls, message, returned>>

NextMetadata ==
    \/ BuildZneMetadata
    \/ NextMitigate

SpecMetadata == InitMetadata /\ [][NextMetadata]_vars

----------------------------------------------------------------------------
(* Claims on the zne metadata *)

\* the entries build_zne_metadata writes itself
ReservedKeys == {"noise_amplifier", "noise_factors", "values"}

\* the metadata keys present in at least one raw result of the group
RawKeys(group) == UNION {DOMAIN group[i].metadata : i \in 1..Len(group)}

\* zne is the metadata of the entry mitigated from group, whose fit returned
\* the diagnostics: the two keys, the strategy's entries wherever no raw key
\* or diagnostic bears their name, one tuple per raw key, the diagnostics
ZneMetadataOf(zne, group, diagnostics) ==
    /\ DOMAIN zne = {"noise_amplification", "extrapolation"}
    /\ LET na == zne.noise_amplification
           ex == zne.extrapolation
       IN /\ DOMAIN na = ReservedKeys \cup RawKeys(group)
          /\ "noise_amplifier" \notin RawKeys(group) => na["noise_amplifier"] = noise_amplifier
          /\ "noise_factors" \notin RawKeys(group) => na["noise_factors"] = noise_factors
          /\ "values" \notin RawKeys(group)
                 => /\ na["values"].type = "tuple"
                    /\ Len(na["values"].items) = Len(group)
                    /\ \A i \in 1..Len(group) : na["values"].items[i] = group[i].values
          /\ \A key \in RawKeys(group) :
                 /\ na[key].type = "tuple"
                 /\ Len(na[key].items) = Len(noise_factors.items)
                 /\ \A i \in 1..Len(group) :
                        na[key].items[i] = IF key \in DOMAIN group[i].metadata
                                           THEN group[i].metadata[key]
                                           ELSE NoneValue
          /\ DOMAIN ex = {"extrapolator"} \cup DOMAIN diagnostics
          /\ "extrapolator" \notin DOMAIN diagnostics
                 => ex["extrapolator"] = [type |-> extrapolator, items |-> <<>>]
          /\ \A key \in DOMAIN diagnostics : ex[key] = diagnostics[key]

\* C20: the zne metadata of each mitigated entry has exactly the two keys
\* noise_amplification and extrapolation; noise_amplification holds the
\* amplifier, the configured noise factors, the group's raw values and, for
\* every metadata key present in at least one raw result of the group, a tuple
\* of length num_noise_factors holding each result's value for that key in
\* order, with None where a result lacks the key; extrapolation holds the
\* extrapolator plus the fit diagnostics it returned.
C20_ZneMetadata ==
    /\ (op.name = "build_zne_metadata" /\ err = "none")
           => ZneMetadataOf(ret, op.arg, op.extrapolation)
    /\ (op.name = "mitigate" /\ err = "none")
           => \A k \in 1..Len(ret.metadata) :
                  /\ DOMAIN ret.metadata[k] = {"zne"}
                  /\ ZneMetadataOf(ret.metadata[k].zne, GroupOf(op.arg, k),
                                   MockReturn.items[2])

\* a group of three results with a field that only some of them have
C20_Witness ==
    /\ op.name = "build_zne_metadata"
    /\ err = "none"
    /\ Len(op.arg) = 3
    /\ DOMAIN op.extrapolation = {"R2"}
    /\ RawKeys(op.arg) = {"variance", "shots"}
    /\ "shots" \notin DOMAIN op.arg[2].metadata
    /\ ret.noise_amplification["shots"].items[2] = NoneValue
    /\ ret.noise_amplification["values"].items[3] = op.arg[3].values


----------------------------------------------------------------------------
(* The cached properties of ZNEStrategy *)

\* The cached_property performs_noise_amplification: the value read and the
\* values held after
performs_noise_amplification(cch, nfs) ==
    LET value == IF "performs_noise_amplification" \in DOMAIN cch
                 THEN cch["performs_noise_amplification"]
                 ELSE \E i \in 1..Len(nfs.items) : nfs.items[i].v > 1
    IN [value |-> value, cached |-> ("performs_noise_amplification" :> value) @@ cch]

\* performs_zne without the test on the number of noise factors
PerformsZneWhenAmplified(cch, nfs) ==
    IF "performs_zne" \in DOMAIN cch
    THEN [value |-> cch["performs_zne"], cached |-> cch]
    ELSE LET pna == performs_noise_amplification(cch, nfs)
         IN [value |-> pna.value, cached |-> ("performs_zne" :> pna.value) @@ pna.cached]

\* The cached_property performs_zne. `and` reads num_noise_factors only when
\* performs_noise_amplification is true.
performs_zne(cch, nfs) ==
    IF "performs_zne" \in DOMAIN cch
    THEN [value |-> cch["performs_zne"], cached |-> cch]
    ELSE LET pna == performs_noise_amplification(cch, nfs)
             n == num_noise_factors(pna.cached, nfs)
             value == pna.value /\ n.value > 1
             after == IF pna.value THEN n.cached ELSE pna.cached
         IN [value |-> value, cached |-> ("performs_zne" :> value) @@ after]

\* The cached_property is_noop. `and` reads performs_zne only when
\* performs_noise_amplification is false.
is_noop(cch, nfs) ==
    IF "is_noop" \in DOMAIN cch
    THEN [value |-> cch["is_noop"], cached |-> cch]
    ELSE LET pna == performs_noise_amplification(cch, nfs)
             pz == performs_zne(pna.cached, nfs)
             value == ~pna.value /\ ~pz.value
             after == IF pna.value THEN pna.cached ELSE pz.cached
         IN [value |-> value, cached |-> ("is_noop" :> value) @@ after]

PropertyNames ==
    {"num_noise_factors", "performs_noise_amplification", "performs_zne", "is_noop"}

\* getattr(strategy, name) for one of the cached properties
cached_property(name, cch, nfs) ==
    CASE name = "num_noise_factors" -> num_noise_factors(cch, nfs)
      [] name = "performs_noise_amplification" -> performs_noise_amplification(cch, nfs)
      [] name = "performs_zne" -> performs_zne(cch, nfs)
      [] name = "is_noop" -> is_noop(cch, nfs)

\* strategy.<name>, read by the caller
ReadProperty(name) ==
    LET r == cached_property(name, cached, noise_factors)
    IN /\ cached' = r.cached
       /\ ret' = r.value
       /\ op' = [name |-> "read", arg |-> name]
       /\ err' = "none"
       /\ warnings' = <<>>
       /\ UNCHANGED <<noise_factors, zne_cache, amp_calls, noise_amplifier, extrapolator,
                      extrap_calls, fit_calls, message, returned>>

NextDerived == \E name \in PropertyNames : ReadProperty(name)

\* a strategy as constructed, whose properties are read in any order
SpecDerived == InitConstructed /\ [][NextDerived]_vars

----------------------------------------------------------------------------
(* Claims on the derived properties *)

\* C21: for every valid strategy, performs_zne is true iff some configured
\* noise factor exceeds 1 and more than one distinct noise factor is
\* configured, and is_noop is true iff the configured noise factors are exactly
\* the single value 1.
C21_DerivedProperties ==
    /\ (op.name = "read" /\ op.arg = "performs_zne")
           => ret = (/\ \E v \in Values(noise_factors.items) : v > 1
                     /\ Cardinality(Values(noise_factors.items)) > 1)
    /\ (op.name = "read" /\ op.arg = "is_noop")
           => ret = (noise_factors.items = <<Real(1)>>)

\* a single noise factor above 1: amplification without extrapolation, read
\* after the other properties
C21_Witness ==
    /\ op.name = "read"
    /\ op.arg = "performs_zne"
    /\ noise_factors = PyTuple(<<Real(2)>>)
    /\ "is_noop" \in DOMAIN cached
    /\ cached["is_noop"] = FALSE
    /\ ret = FALSE


----------------------------------------------------------------------------
(* ZNEJob.result *)

\* the EstimatorResult the base job returns, from its experiments
BaseResult(experiments) ==
    EstimatorResult([i \in 1..Len(experiments) |-> experiments[i].values],
                    [i \in 1..Len(experiments) |-> experiments[i].metadata])

\* result() without the test on the number of values
NumExperimentsUnchecked(result, target_num_experiments) == FALSE

\* len(result.values) != self.target_num_experiments
NumExperimentsDiffer(result, target_num_experiments) ==
    Len(result.values) # target_num_experiments

\* the end of result(): RuntimeError when the number of values is not the
\* target, the result otherwise; raised is what mitigate_noisy_result raised
checked_result(result, raised, target_num_experiments, after, calls, fits) ==
    LET error == IF raised # "none" THEN raised
                 ELSE IF NumExperimentsDiffer(result, target_num_experiments)
                 THEN "RuntimeError"
                 ELSE "none"
    IN [err |-> error,
        ret |-> IF error = "none" THEN result ELSE PyNone,
        cached |-> after,
        calls |-> calls,
        fits |-> fits]

\* result = self._zne_strategy.mitigate_noisy_result(result), m being what the
\* call returned or raised
mitigated_result(m, target_num_experiments, after) ==
    checked_result(m.ret, m.err, target_num_experiments, after, m.calls, m.fits)

\* ZNEJob(base_job, zne_strategy, target_num_experiments).result(), the base job
\* returning the experiments, on a strategy with cached properties cch, noise
\* amplifier amp, noise factors nfs and extrapolator e
job_result(experiments, target_num_experiments, cch, amp, nfs, e, solvers) ==
    LET pz == performs_zne(cch, nfs)
    IN IF pz.value
       THEN mitigated_result(
                mitigate_noisy_result(experiments, amp, nfs,
                                      num_noise_factors(pz.cached, nfs).value, e, solvers),
                target_num_experiments,
                num_noise_factors(pz.cached, nfs).cached)
       ELSE checked_result(BaseResult(experiments), "none", target_num_experiments,
                           pz.cached, <<>>, <<>>)

\* the noise factors of the strategies a job is run with
JobNoiseFactors ==
    {PyTuple(<<Real(1)>>), PyTuple(<<Real(2)>>)} \cup MetadataNoiseFactors

\* target_num_experiments: len(circuits) of the run
JobTargets == 0..2

\* the experiments of the base job's result: result() does not look at their
\* metadata
JobExperiments ==
    SeqsUpTo([values : {Real(v) : v \in RawValues}, metadata : {EmptyDict}], MaxExperiments)

InitJob == \E nfs \in JobNoiseFactors, e \in Extrapolators : Constructed(nfs, e)

\* job.result(), once per job
JobResult ==
    /\ op.name = "init"
    /\ \E experiments \in JobExperiments, target \in JobTargets :
       \E solvers \in SolverRuns(Len(experiments)) :
           LET r == job_result(experiments, target, cached, noise_amplifier,
                               noise_factors, extrapolator, solvers)
           IN /\ op' = [name |-> "result", arg |-> experiments, target |-> target,
                        solvers |-> solvers]
              /\ cached' = r.cached
              /\ err' = r.err
              /\ ret' = r.ret
              /\ extrap_calls' = r.calls
              /\ fit_calls' = r.fits
              /\ warnings' = <<>>
              /\ UNCHANGED <<noise_factors, zne_cache, amp_calls, noise_amplifier,
                             extrapolator, message, returned>>

NextJob == JobResult

SpecJob == InitJob /\ [][NextJob]_vars

----------------------------------------------------------------------------
(* Claims on ZNEJob.result *)

\* what strategy.mitigate_noisy_result does with the base job's result
Mitigated ==
    mitigate_noisy_result(op.arg, noise_amplifier, noise_factors, Len(noise_factors.items),
                          extrapolator, op.solvers)

\* the result that result() is about: the mitigated one iff the strategy
\* performs zne, the base job's otherwise
Selected ==
    IF /\ \E v \in Values(noise_factors.items) : v > 1
       /\ Len(noise_factors.items) > 1
    THEN Mitigated
    ELSE [err |-> "none", ret |-> BaseResult(op.arg)]

\* C22: ZNEJob.result returns the output of strategy.mitigate_noisy_result
\* applied to the base job's result iff strategy.performs_zne, and otherwise
\* returns the base job's result object itself; in both cases it raises a
\* RuntimeError instead of returning when the number of values in that result
\* differs from target_num_experiments. (What mitigate raises leaves result()
\* as it is.)
C22_JobResult ==
    op.name = "result"
        => IF Selected.err # "none"
           THEN err = Selected.err /\ ret = PyNone
           ELSE IF Len(Selected.ret.values) # op.target
           THEN err = "RuntimeError" /\ ret = PyNone
           ELSE err = "none" /\ ret = Selected.ret

\* four experiments over two noise factors, mitigated into the two values the
\* job was run for
C22_Witness ==
    /\ op.name = "result"
    /\ Len(op.arg) = 4
    /\ Len(noise_factors.items) = 2
    /\ op.target = 2
    /\ err = "none"
    /\ ret = Mitigated.ret
    /\ Len(ret.values) = 2
    /\ ret # BaseResult(op.arg)


----------------------------------------------------------------------------
(* Claims on the barriers and the warnings of the folding amplifiers *)

\* what the amplifier of the call returns for the same circuit, noise factor
\* and draw of its generator when its barriers option is b
OutputWith(b) ==
    LET amp == [noise_amplifier EXCEPT !.barriers = b]
        r == IF op.name = "amplify_global"
             THEN global_amplify_circuit_noise(amp, op.arg.circuit, op.arg.noise_factor,
                                               op.arg.draw)
             ELSE local_amplify_circuit_noise(amp, op.arg.circuit, op.arg.noise_factor,
                                              op.arg.draw)
    IN r.ret

\* without is obtained from with by removing barriers, and nothing else
RECURSIVE BarriersRemoved(_, _)
BarriersRemoved(with, without) ==
    IF with = <<>> THEN without = <<>>
    ELSE IF without # <<>> /\ Head(with) = Head(without)
    THEN BarriersRemoved(Tail(with), Tail(without))
    ELSE IsBarrier(Head(with)) /\ BarriersRemoved(Tail(with), without)

NumBarriers(circuit) == Len(SelectSeq(circuit, IsBarrier))

\* C23: with barriers disabled, neither folding amplifier emits any barrier
\* operation that was not in the input, and for the same input, noise factor,
\* policy and seed the output with barriers enabled equals the output with
\* barriers disabled once the emitted barriers are removed.
C23_BarriersOption ==
    (Amplified /\ err = "none") =>
        /\ ret = OutputWith(noise_amplifier.barriers)
        /\ ~noise_amplifier.barriers =>
               \A i \in 1..Len(ret) :
                   IsBarrier(ret[i]) =>
                       \E j \in 1..Len(op.arg.circuit) : op.arg.circuit[j] = ret[i]
        /\ BarriersRemoved(OutputWith(TRUE), OutputWith(FALSE))
        /\ IgnoreBarriers(OutputWith(TRUE)) = IgnoreBarriers(OutputWith(FALSE))

\* a circuit with a barrier of its own, folded at random with barriers enabled:
\* the amplifier adds barriers to the one of the input
C23_Witness ==
    /\ op.name = "amplify_local"
    /\ err = "none"
    /\ noise_amplifier.barriers
    /\ noise_amplifier.sub_folding_option = "random"
    /\ op.arg.draw # {}
    /\ NumBarriers(op.arg.circuit) = 1
    /\ NumBarriers(OutputWith(FALSE)) = 1
    /\ NumBarriers(ret) > 1


\* C24: a folding amplifier constructed with warn_user = False emits no user
\* warning from any amplification call, neither the nothing-to-fold warning
\* nor the noise-factor rounding warning.
C24_NoWarningWhenDisabled ==
    (Amplified /\ ~noise_amplifier.warn_user) => warnings = <<>>

\* the part of C24 that the code keeps: with warn_user = False the
\* nothing-to-fold warning is not emitted
NothingToFoldSilenced ==
    (Amplified /\ ~noise_amplifier.warn_user) =>
        \A i \in 1..Len(warnings) :
            warnings[i] # "Noise amplification is not performed since none of the gates are folded."


----------------------------------------------------------------------------
(* The fit of the concrete extrapolators *)

\* scipy's curve_fit(model, x_data, y_data, sigma=sigma, absolute_sigma=True),
\* kept as a term over what the solver receives
curve_fit(x_data, y_data, sigma) ==
    LET fit == [x_data |-> x_data, y_data |-> y_data, sigma_y |-> sigma]
    IN ReckoningResult([fit |-> fit, part |-> "value"],
                       [fit |-> fit, part |-> "std_error"],
                       [fit |-> fit, part |-> "metadata"])

\* OLSExtrapolator._compute_sigma: ones when errors / values is close to zero
\* at some point (0 / 0 is NaN and e / 0 is Inf: neither is close to zero)
_compute_sigma(y_data, sigma_y) ==
    IF \E i \in 1..Len(sigma_y.items) : sigma_y.items[i].v = 0 /\ y_data.items[i].v # 0
    THEN PyTuple([i \in 1..Len(sigma_y.items) |-> Real(1)])
    ELSE sigma_y

\* MultiExponentialExtrapolator._extrapolate_zero: sigma=self._compute_sigma(...)
exponential_extrapolate_zero(x_data, y_data, sigma_x, sigma_y) ==
    curve_fit(x_data, y_data, _compute_sigma(y_data, sigma_y))

----------------------------------------------------------------------------
(* MultiExponentialExtrapolator *)

\* most exponential terms asked for
MaxTerms == 2
\* most data points given to an exponential extrapolator
MaxData == 5

\* MultiExponentialExtrapolator(num_terms): _set_num_terms keeps int(num_terms)
\* or raises ValueError; nothing in the class emits a warning
MultiExponentialExtrapolator(num_terms) ==
    IF num_terms < 1
    THEN [err |-> "ValueError", obj |-> PyNone, warnings |-> <<>>]
    ELSE [err |-> "none",
          obj |-> [type |-> "MultiExponentialExtrapolator", num_terms |-> num_terms],
          warnings |-> <<>>]

\* BiExponentialExtrapolator(): super().__init__(num_terms=2)
BiExponentialExtrapolator == MultiExponentialExtrapolator(2)

\* MultiExponentialExtrapolator.min_points
exponential_min_points(e) == e.num_terms * 2 + 1

\* extrapolator = MultiExponentialExtrapolator(num_terms)
ConstructExponential ==
    /\ op.name = "init"
    /\ \E num_terms \in 0..MaxTerms :
           LET r == MultiExponentialExtrapolator(num_terms)
           IN /\ op' = [name |-> "MultiExponentialExtrapolator", arg |-> num_terms]
              /\ err' = r.err
              /\ extrapolator' = IF r.err = "none" THEN r.obj ELSE extrapolator
              /\ warnings' = r.warnings
              /\ ret' = r.obj
              /\ UNCHANGED <<noise_factors, cached, zne_cache, amp_calls, noise_amplifier,
                             extrap_calls, fit_calls, message, returned>>

\* extrapolator.extrapolate_zero(x_data, y_data) on the extrapolator just
\* built, with data on the points 1, 2, ...; warnings keeps what was emitted
\* since the construction
ExponentialExtrapolateZero ==
    /\ op.name = "MultiExponentialExtrapolator"
    /\ err = "none"
    /\ \E k \in 0..MaxData, solver \in SolverOutcomes :
       \E y \in [1..k -> {Real(v) : v \in RawValues}] :
           LET args == <<PyTuple([i \in 1..k |-> Real(i)]), PyList(y)>>
               r == extrapolate_zero(exponential_min_points(extrapolator), args, solver)
           IN /\ solver # "ok" => r.fits # <<>>
              /\ op' = [name |-> "extrapolate_zero", arg |-> args,
                        min_points |-> exponential_min_points(extrapolator),
                        solver |-> solver]
              /\ err' = r.err
              /\ message' = r.message
              /\ ret' = IF r.err = "none"
                        THEN exponential_extrapolate_zero(r.fits[1][1], r.fits[1][2],
                                                          r.fits[1][3], r.fits[1][4])
                        ELSE r.ret
              /\ fit_calls' = r.fits
              /\ warnings' = warnings
              /\ UNCHANGED <<noise_factors, cached, zne_cache, amp_calls, noise_amplifier,
                             extrapolator, extrap_calls, returned>>

NextExponential ==
    \/ ConstructExponential
    \/ ExponentialExtrapolateZero

SpecExponential == Init /\ [][NextExponential]_vars

\* C25: using a multi-exponential extrapolator with more than one exponential
\* term (num_terms > 1, including BiExponentialExtrapolator) reports a warning
\* to the caller that the model is unstable, and the computation then proceeds.
C25_UnstableModelWarning ==
    (/\ op.name = "extrapolate_zero"
     /\ extrapolator.num_terms > 1
     /\ fit_calls # <<>>)
        => warnings # <<>>

\* the part of C25 that the code keeps: the computation proceeds, the fit of a
\* bi-exponential model on five distinct points returns when its solver does
BiExponentialProceeds ==
    (/\ op.name = "extrapolate_zero"
     /\ extrapolator = BiExponentialExtrapolator.obj
     /\ Len(op.arg[1].items) = 5
     /\ op.solver = "ok")
        => (err = "none" /\ Len(fit_calls) = 1)


----------------------------------------------------------------------------
(* FoldingAmplifier._compute_folding_nums called on its own *)

\* most units to fold
MaxUnits == 9
\* largest noise factor asked for, in halves and in thirds
MaxHalves == 9
MaxThirds == 8

\* The noise factors >= 1 the plan is computed for: halves and thirds, which
\* hold the ties of the rounding, the factors of the tests, and factors whose
\* distance to 1 lies at the relative tolerance and on either side of it
PlanNoiseFactors ==
    {Ratio(p, 2) : p \in 2..MaxHalves}
        \cup {Ratio(p, 3) : p \in 3..MaxThirds}
        \cup {Ratio(6, 5), Ratio(18, 5), Ratio(100, 99), Ratio(101, 100), Ratio(51, 50)}

\* amplifiers with and without user warnings
InitPlan ==
    \E w \in BOOLEAN :
        ConstructedWith(PyTuple(<<Real(1)>>),
                        FoldingAmplifier("GlobalFoldingAmplifier", AllGates, "from_first",
                                         TRUE, w),
                        "Extrapolator")

\* amplifier._compute_folding_nums(noise_factor, num_instructions)
ComputeFoldingNums ==
    /\ op.name = "init"
    /\ \E noise_factor \in PlanNoiseFactors, num_instructions \in 0..MaxUnits :
           LET plan == _compute_folding_nums(noise_amplifier, noise_factor, num_instructions)
           IN /\ op' = [name |-> "_compute_folding_nums",
                        arg |-> [noise_factor |-> noise_factor,
                                 num_instructions |-> num_instructions]]
              /\ ret' = <<plan.full, plan.sub>>
              /\ warnings' = plan.warnings
              /\ err' = "none"
              /\ UNCHANGED <<noise_factors, cached, zne_cache, amp_calls, noise_amplifier,
                             extrapolator, extrap_calls, fit_calls, message, returned>>

NextPlan == ComputeFoldingNums

SpecPlan == InitPlan /\ [][NextPlan]_vars

\* f is unit_count * (noise_factor - 1) / 2 rounded to the nearest integer,
\* ties going to the even integer
NearestEven(f, unit_count, noise_factor) ==
    LET \* twice the distance of f to the exact value, in units of 1 / (2 * den)
        gap == Abs(2 * noise_factor.den * f
                       - unit_count * (noise_factor.num - noise_factor.den))
    IN \/ gap < noise_factor.den
       \/ gap = noise_factor.den /\ f % 2 = 0

\* |2 * f / unit_count + 1 - noise_factor| / noise_factor > tolerance
ExceedsTolerance(f, unit_count, noise_factor, tolerance) ==
    Abs((2 * f + unit_count) * noise_factor.den - noise_factor.num * unit_count)
            * tolerance.den
        > tolerance.num * unit_count * noise_factor.num

\* C26: for every noise_factor >= 1 and unit_count >= 0, the folding plan is
\* (0, 0) with a nothing-to-fold warning when unit_count = 0, and otherwise
\* (full, sub) = divmod(foldings, unit_count) with foldings = unit_count *
\* (noise_factor - 1) / 2 rounded to the nearest integer with ties going to the
\* even integer; hence full >= 0, 0 <= sub < unit_count and full * unit_count +
\* sub = foldings, and the rounding warning is emitted exactly when
\* |2 * foldings / unit_count + 1 - noise_factor| / noise_factor exceeds the
\* relative tolerance. (The nothing-to-fold warning is a user warning: it is
\* the one an amplifier built with warn_user = False keeps silent.)
C26_FoldingPlan ==
    op.name = "_compute_folding_nums" =>
        LET unit_count == op.arg.num_instructions
            noise_factor == op.arg.noise_factor
            full == ret[1]
            sub == ret[2]
            foldings == full * unit_count + sub
        IN IF unit_count = 0
           THEN /\ ret = <<0, 0>>
                /\ warnings =
                       IF noise_amplifier.warn_user
                       THEN <<"Noise amplification is not performed since none of the gates are folded.">>
                       ELSE <<>>
           ELSE /\ full >= 0
                /\ 0 <= sub /\ sub < unit_count
                /\ NearestEven(foldings, unit_count, noise_factor)
                /\ warnings = IF ExceedsTolerance(foldings, unit_count, noise_factor,
                                     noise_amplifier.noise_factor_relative_tolerance)
                              THEN <<"Rounding of noise factor">>
                              ELSE <<>>

\* three units at noise factor 4/2: 1.5 foldings, a tie, rounded to the even 2
C26_Witness ==
    /\ op.name = "_compute_folding_nums"
    /\ op.arg.num_instructions = 3
    /\ op.arg.noise_factor = Ratio(4, 2)
    /\ ret = <<0, 2>>
    /\ warnings = <<"Rounding of noise factor">>


----------------------------------------------------------------------------
(* PolynomialExtrapolator *)

\* largest degree asked for
MaxDegree == 2

\* PolynomialExtrapolator(degree): _set_degree keeps int(degree) or raises
PolynomialExtrapolator(degree) ==
    IF degree < 1
    THEN [err |-> "ValueError", obj |-> PyNone]
    ELSE [err |-> "none", obj |-> [type |-> "PolynomialExtrapolator", degree |-> degree]]

\* PolynomialExtrapolator.min_points
polynomial_min_points(e) == e.degree + 1

\* PolynomialExtrapolator._infer(0, regression_data): sigma=regression_data.sigma_y
_infer(x_data, y_data, sigma_x, sigma_y) == curve_fit(x_data, y_data, sigma_y)

\* PolynomialExtrapolator._extrapolate_zero, called after _validate_min_points
\* has passed: its own test on the number of points passes too
polynomial_extrapolate_zero(x_data, y_data, sigma_x, sigma_y) ==
    _infer(x_data, y_data, sigma_x, sigma_y)

\* extrapolator = PolynomialExtrapolator(degree)
ConstructPolynomial ==
    /\ op.name = "init"
    /\ \E degree \in 0..MaxDegree :
           LET r == PolynomialExtrapolator(degree)
           IN /\ op' = [name |-> "PolynomialExtrapolator", arg |-> degree]
              /\ err' = r.err
              /\ extrapolator' = IF r.err = "none" THEN r.obj ELSE extrapolator
              /\ warnings' = <<>>
              /\ ret' = r.obj
              /\ UNCHANGED <<noise_factors, cached, zne_cache, amp_calls, noise_amplifier,
                             extrap_calls, fit_calls, message, returned>>

\* extrapolator.extrapolate_zero(x_data, y_data, sigma_y=sigma_y) on the
\* extrapolator just built, with data on the points 1, 2, ...
PolynomialExtrapolateZero ==
    /\ op.name = "PolynomialExtrapolator"
    /\ err = "none"
    /\ \E k \in 0..MaxData, solver \in SolverOutcomes :
       \E y \in [1..k -> {Real(v) : v \in RawValues}],
          sigma_y \in [1..k -> {Real(0), Real(1)}] :
           LET args == <<PyTuple([i \in 1..k |-> Real(i)]), PyList(y), PyNone,
                         PyList(sigma_y)>>
               r == extrapolate_zero(polynomial_min_points(extrapolator), args, solver)
           IN /\ solver # "ok" => r.fits # <<>>
              /\ op' = [name |-> "extrapolate_zero", arg |-> args,
                        min_points |-> polynomial_min_points(extrapolator),
                        solver |-> solver]
              /\ err' = r.err
              /\ message' = r.message
              /\ ret' = IF r.err = "none"
                        THEN polynomial_extrapolate_zero(r.fits[1][1], r.fits[1][2],
                                                         r.fits[1][3], r.fits[1][4])
                        ELSE r.ret
              /\ fit_calls' = r.fits
              /\ warnings' = warnings
              /\ UNCHANGED <<noise_factors, cached, zne_cache, amp_calls, noise_amplifier,
                             extrapolator, extrap_calls, returned>>

NextPolynomial ==
    \/ ConstructPolynomial
    \/ PolynomialExtrapolateZero

SpecPolynomial == Init /\ [][NextPolynomial]_vars

\* the sigma the solver received in the fit that returned
SolverSigma == ret.items[1].fit.sigma_y

\* sigma_y / y_data is zero at some data point
ZeroRatio(y_data, sigma_y) ==
    \E i \in 1..Len(y_data.items) : sigma_y.items[i].v = 0 /\ y_data.items[i].v # 0

\* C27: PolynomialExtrapolator fits with unit weights (all sigma equal to 1)
\* whenever the ratio sigma_y / y_data is numerically zero for at least one
\* data point, and with the given sigma_y otherwise, so that exact data
\* (sigma_y all zero) never reaches the solver as zero weights.
C27_UnitWeights ==
    (op.name = "extrapolate_zero" /\ err = "none") =>
        SolverSigma = IF ZeroRatio(op.arg[2], op.arg[4])
                      THEN Ones(Len(op.arg[4].items))
                      ELSE PyTuple(op.arg[4].items)

\* what the code does: the solver of a polynomial fit receives sigma_y as given
PolynomialSigmaAsGiven ==
    (op.name = "extrapolate_zero" /\ err = "none") =>
        SolverSigma = PyTuple(op.arg[4].items)

----------------------------------------------------------------------------
(* Reassignment of noise_factors after the derived properties were read *)

\* the noise factors a caller assigns: values that __post_init__ would accept
\* and leave as they are
ReassignedNoiseFactors ==
    {_validate_noise_factors(arg).nfs :
        arg \in {a \in NoiseFactorArgs : _validate_noise_factors(a).err = "none"}}

NextReassign ==
    \/ \E name \in PropertyNames : ReadProperty(name)
    \/ \E arg \in ReassignedNoiseFactors : SetNoiseFactors(arg)
    \/ \E arg \in MapArgs : MapToNoisyCircuits(arg)

\* a strategy whose properties are read, whose noise_factors is reassigned and
\* whose map_to_noisy_circuits is called, in any order
SpecReassign == InitConstructed /\ [][NextReassign]_vars

\* C28: in every reachable state of a ZNEStrategy, including after
\* noise_factors has been reassigned following a read of the derived
\* properties, num_noise_factors equals len(noise_factors) and
\* performs_noise_amplification, performs_zne and is_noop equal the values
\* defined from the current noise_factors; map_to_noisy_circuits replicates
\* by the current number of noise factors.
C28_DerivedPropertiesCurrent ==
    /\ (op.name = "read" /\ op.arg = "num_noise_factors")
           => ret = Len(noise_factors.items)
    /\ (op.name = "read" /\ op.arg = "performs_noise_amplification")
           => ret = (\E v \in Values(noise_factors.items) : v > 1)
    /\ (op.name = "read" /\ op.arg = "performs_zne")
           => ret = (/\ \E v \in Values(noise_factors.items) : v > 1
                     /\ Len(noise_factors.items) > 1)
    /\ (op.name = "read" /\ op.arg = "is_noop")
           => ret = (\A v \in Values(noise_factors.items) : v <= 1)
    /\ (op.name = "map" /\ op.arg # PyNone)
           => Len(ret.items) = Len(op.arg.items) * Len(noise_factors.items)

\* what the code does: a value a property has once computed is the value of
\* every later read, whatever noise_factors is assigned in between
CachedValuesKept ==
    [][\A name \in DOMAIN cached :
          /\ name \in DOMAIN cached'
          /\ cached'[name] = cached[name]
          /\ (op'.name = "read" /\ op'.arg = name) => ret' = cached[name]]_vars

----------------------------------------------------------------------------
(* ZNEStrategy.amplify_circuit_noise across reassignments of noise_amplifier *)

\* qiskit.primitives.utils._circuit_key: the instructions of the circuit, each
\* by the name of its operation and the indices of its qubits
_circuit_key(circuit) ==
    [i \in 1..Len(circuit) |-> <<circuit[i].name, circuit[i].qargs>>]

\* The amplifiers a caller configures one after the other: none draws at random
ConfiguredAmplifiers ==
    {CxAmplifier,
     FoldingAmplifier("LocalFoldingAmplifier", AllGates, "from_first", TRUE, TRUE),
     FoldingAmplifier("GlobalFoldingAmplifier", AllGates, "from_first", TRUE, TRUE)}

\* the circuits and the noise factors of the calls
ConfiguredCircuits ==
    {<<Operation("cx", <<1, 2>>)>>, <<Operation("s", <<1>>), Operation("cx", <<1, 2>>)>>}
ConfiguredNoiseFactors == {Ratio(1, 1), Ratio(3, 1)}

\* self.noise_amplifier.amplify_circuit_noise(circuit, noise_factor)
configured_amplify_circuit_noise(amp, circuit, noise_factor) ==
    IF amp.kind = "GlobalFoldingAmplifier"
    THEN global_amplify_circuit_noise(amp, circuit, noise_factor, {})
    ELSE local_amplify_circuit_noise(amp, circuit, noise_factor, {})

\* amplify_circuit_noise, with the circuit the amplifier returns spelled out
strategy_amplify_circuit_noise(cache, calls, amp, circuit, noise_factor) ==
    LET cache_key == <<_circuit_key(circuit), noise_factor>>
    IN IF cache_key \in DOMAIN cache
       THEN [zne_cache |-> cache, amp_calls |-> calls, ret |-> CacheGet(cache, cache_key),
             warnings |-> <<>>]
       ELSE LET r == configured_amplify_circuit_noise(amp, circuit, noise_factor)
            IN [zne_cache |-> CacheInsert(cache, cache_key, r.ret),
                amp_calls |-> calls + 1,
                ret |-> r.ret,
                warnings |-> r.warnings]

InitConfigured ==
    \E amp \in ConfiguredAmplifiers :
        ConstructedWith(PyTuple(<<Real(1)>>), amp, "Extrapolator")

\* strategy.amplify_circuit_noise(circuit, noise_factor)
StrategyAmplifyCircuitNoise ==
    \E circuit \in ConfiguredCircuits, noise_factor \in ConfiguredNoiseFactors :
        LET r == strategy_amplify_circuit_noise(zne_cache, amp_calls, noise_amplifier,
                                                circuit, noise_factor)
        IN /\ zne_cache' = r.zne_cache
           /\ amp_calls' = r.amp_calls
           /\ ret' = r.ret
           /\ warnings' = r.warnings
           /\ op' = [name |-> "amplify_circuit_noise",
                     arg |-> [circuit |-> circuit, noise_factor |-> noise_factor]]
           /\ err' = "none"
           /\ UNCHANGED <<noise_factors, cached, noise_amplifier, extrapolator,
                          extrap_calls, fit_calls, message, returned>>

\* strategy.noise_amplifier = amp: a plain field, the cache is left as it is
SetNoiseAmplifier ==
    \E amp \in ConfiguredAmplifiers :
        /\ noise_amplifier' = amp
        /\ op' = [name |-> "setattr", arg |-> amp]
        /\ err' = "none"
        /\ warnings' = <<>>
        /\ ret' = PyObject
        /\ UNCHANGED <<noise_factors, cached, zne_cache, amp_calls, extrapolator,
                       extrap_calls, fit_calls, message, returned>>

NextConfigured ==
    \/ StrategyAmplifyCircuitNoise
    \/ SetNoiseAmplifier

SpecConfigured == InitConfigured /\ [][NextConfigured]_vars

\* C29: after any sequence of amplify_circuit_noise calls and reassignments of
\* the strategy's noise_amplifier field, amplify_circuit_noise(circuit,
\* noise_factor) returns a circuit produced by the amplifier that is configured
\* at the time of the call; a result cached under a previously configured
\* amplifier is never returned.
C29_ConfiguredAmplifierUsed ==
    op.name = "amplify_circuit_noise" =>
        ret = configured_amplify_circuit_noise(noise_amplifier, op.arg.circuit,
                                               op.arg.noise_factor).ret

\* what the code does: the first result stored for a circuit and a noise
\* factor is returned by every later call, whatever the amplifier
FirstResultKept ==
    [][\A k \in DOMAIN zne_cache :
          /\ k \in DOMAIN zne_cache'
          /\ zne_cache'[k] = zne_cache[k]
          /\ (/\ op'.name = "amplify_circuit_noise"
              /\ <<_circuit_key(op'.arg.circuit), op'.arg.noise_factor>> = k)
                 => (ret' = zne_cache[k] /\ amp_calls' = amp_calls)]_vars

----------------------------------------------------------------------------
(* Claims on the entries build_zne_metadata writes itself *)

\* the raw values of a result group, as build_zne_metadata stores them
RawValuesOf(group) == PyTuple([i \in 1..Len(group) |-> group[i].values])

\* C30: for every raw metadata content and every extrapolator diagnostics
\* mapping, the entries noise_amplifier, noise_factors and values of the
\* noise_amplification metadata equal the strategy's amplifier, its noise
\* factors and the group's raw values, and the entry extrapolator of the
\* extrapolation metadata equals the strategy's extrapolator: no key coming
\* from the raw results or from the extrapolator can overwrite them.
C30_ReservedEntriesKept ==
    (op.name = "build_zne_metadata" /\ err = "none") =>
        /\ ret.noise_amplification["noise_amplifier"] = noise_amplifier
        /\ ret.noise_amplification["noise_factors"] = noise_factors
        /\ ret.noise_amplification["values"] = RawValuesOf(op.arg)
        /\ ret.extrapolation["extrapolator"] = [type |-> extrapolator, items |-> <<>>]

\* what the code does: a raw metadata key or a diagnostic named like one of
\* these entries replaces it
LaterWriteWins ==
    (op.name = "build_zne_metadata" /\ err = "none") =>
        /\ "values" \in RawKeys(op.arg)
               => ret.noise_amplification["values"] # RawValuesOf(op.arg)
        /\ "extrapolator" \in DOMAIN op.extrapolation
               => ret.extrapolation["extrapolator"] = op.extrapolation["extrapolator"]

====
